---- MODULE Spec2Model ----
(***************************************************************************)
(* The asynchronous job lifecycle of the CDR test-suite server:            *)
(*   - POST /api/ccda-gen-test-cases -> MockTestCaseGenerator              *)
(*     .generateTestCases (submit + setImmediate background run),          *)
(*   - GCSService (the Store: status.json, input.csv, metadata.json,       *)
(*     results.json, output.csv per job id),                               *)
(*   - GET /api/status/:jobId and GET /api/results/:jobId.                 *)
(*                                                                         *)
(* Every await of the code is a step boundary: the code between two awaits *)
(* is one action.  A Store call is atomic per object (temp file + rename,  *)
(* or one GCS save) and either takes effect or fails leaving the object    *)
(* as it was.                                                              *)
(***************************************************************************)
EXTENDS Integers, Sequences, FiniteSets, TLC

\* ------------------------------------------------------------------ bounds
MaxFaults == 1      \* Store operations of submit/run that may fail in one behaviour

\* The ids uuidv4() hands out, in the order in which it hands them out; an id
\* no submit has drawn is an unknown id.
JobOrder == <<"job-1", "job-2">>
JobIds == {JobOrder[i] : i \in 1..Len(JobOrder)}

MaxChunks == 2      \* chunks in which fs.writeFile fills a file
MaxRows == 4        \* data lines of a CSV given to the Generator
MaxCalls == 2       \* calls of the external Generator client

\* ------------------------------------------------------------- vocabulary
Undefined == "<undefined>"          \* JS undefined (an omitted argument)
Null == [isNull |-> TRUE]           \* JS null (readJobStatus / readResults miss)

STATUS == "status.json"
INPUT == "input.csv"
METADATA == "metadata.json"
RESULTS == "results.json"
OUTPUT == "output.csv"
ArtifactKinds == {STATUS, INPUT, METADATA, RESULTS, OUTPUT}

Terminal == {"completed", "failed"}

\* A CSV text is modelled by its lines after trim().split('\n'): the header
\* line, then data lines.  A data line is named by what its Required column
\* holds; EmptyLine is a line all of whose fields are empty; QuotedLine is
\* written out.
HeaderLine == "Source_Field,Target_FHIR_Resource,FHIR_Attribute,Transformation_Rule,Data_Type,Required"
EmptyLine == ""
Csv1 == <<HeaderLine, "Yes">>
Csv2 == <<HeaderLine, "No", EmptyLine, "true">>
\* The inline csv_mapping of the lifecycle model; Csv1 is what a fetch returns.
CsvContents == {Csv2}

BatchNumbers == {"001"}

\* The CSV texts of up to MaxRows data lines, for the runs that exercise the
\* Generator: a line whose Required column is Yes, one whose Required column
\* is TRUE, one whose Required column is No, one without any field, and one
\* that has nothing but a Source_Field, quoted and holding a comma and double
\* quotes.
QuotedLine == "\"last, \"\"first\"\"\""
RowValues == {"Yes", "TRUE", "No", EmptyLine, QuotedLine}
\* LongCsv is one longer text: eight data lines, seven of them with a field,
\* so that its rows go past the sixth.
LongCsv ==
    <<HeaderLine, "Yes", "No", EmptyLine, "TRUE", QuotedLine, "No", "Yes", "No">>
GenCsvs ==
    { <<HeaderLine>> \o rows :
          rows \in UNION {[1..n -> RowValues] : n \in 0..MaxRows} }
        \cup {LongCsv}
\* Their batch numbers: a plain one, and one holding a comma, one a double
\* quote, one a line feed.
GenBatchNumbers == {"001", "7,8", "7\"8", "7\n8"}
GenBodies ==
    { [csv_mapping |-> csv, batch_number |-> batch, user_id |-> "u1"] :
          csv \in GenCsvs, batch \in GenBatchNumbers }
GenJob == "job-1"

\* The string '' as a CSV text.
EmptyText == << >>

GithubUrl == "https://github.com/org/repo/blob/main/mapping.csv"

\* Request bodies of POST /api/ccda-gen-test-cases.  A field the body does
\* not have is not in the record's domain.
SubmitBodies ==
    { [csv_mapping |-> csv, batch_number |-> batch, user_id |-> "u1"] :
          csv \in CsvContents, batch \in BatchNumbers }
    \cup
    { [github_url |-> GithubUrl, batch_number |-> "001", user_id |-> "u1"],
      [csv_mapping |-> Csv2, github_url |-> GithubUrl,
       batch_number |-> "001", user_id |-> "u1"],
      [batch_number |-> "001", user_id |-> "u1"],
      [csv_mapping |-> EmptyText, github_url |-> "",
       batch_number |-> "001", user_id |-> "u1"],
      [csv_mapping |-> Csv1, user_id |-> "u1"],
      [csv_mapping |-> Csv1, batch_number |-> "", user_id |-> "u1"],
      [csv_mapping |-> Csv1, batch_number |-> "001"],
      [csv_mapping |-> Csv1, batch_number |-> "001", user_id |-> ""] }

\* What githubService.fetchCSVFromGitHub resolves to; NoFetch when the route
\* does not call it.
NoFetch == [success |-> FALSE, content |-> EmptyText, error |-> Undefined]
FetchOutcomes ==
    { [success |-> TRUE,  content |-> Csv1,      error |-> Undefined],
      [success |-> TRUE,  content |-> EmptyText, error |-> Undefined],
      [success |-> FALSE, content |-> EmptyText, error |-> "Failed to fetch file"] }

\* The submit request handled last: its body, what its fetch resolved to and
\* the job id drawn for it (none when it was refused).
NoAsk == [body |-> [none |-> TRUE], csvResult |-> NoFetch, job |-> ""]
Asked(body, csvResult, j) == [body |-> body, csvResult |-> csvResult, job |-> j]

\* The Store writes of one job in the order of the code
\* (mock-testcase-generator.ts:186-235), for the file-level model of the local
\* backend; the values stand for the texts written.
DiskJob == "job-1"
LocalWrites ==
    << [kind |-> STATUS, value |-> "pending"],
       [kind |-> INPUT, value |-> "input"],
       [kind |-> METADATA, value |-> "metadata"],
       [kind |-> STATUS, value |-> "processing"],
       [kind |-> RESULTS, value |-> "results"],
       [kind |-> OUTPUT, value |-> "output"],
       [kind |-> STATUS, value |-> "completed"] >>

\* randomBytes(8).toString('hex')
HexNames == {"0a", "f3"}

\* Values the Generator step can throw: an Error with a message, an Error
\* whose message is '', and a thrown value that is not an Error.
NoThrow == [thrown |-> FALSE, isError |-> FALSE, message |-> Undefined]
ThrownValues ==
    { [thrown |-> TRUE, isError |-> TRUE,  message |-> "generation failed"],
      [thrown |-> TRUE, isError |-> TRUE,  message |-> ""],
      [thrown |-> TRUE, isError |-> FALSE, message |-> Undefined] }

VARIABLES
    pc,            \* pc[j]: where job j's submit / background run stands
    request,       \* request[j]: the TestCaseRequest given to generateTestCases
    store,         \* the Store: a function from <<jobId, kind>> to content
    caught,        \* caught[j]: the value caught by the run's catch block
    response,      \* the HTTP response of a polling route, until it is delivered
    faults,        \* Store operations of submit/run that have failed so far
    statusLog,     \* history: statusLog[j] = the statuses persisted for j, in order
    failedWrites,  \* history: failedWrites[j] = the writes of j that returned false
    runs,          \* history: runs[j] = how many times j's setImmediate callback began
    files,         \* local backend: the files under /tmp/gcs-mock/jobs, path -> text so far
    writer,        \* local backend: where the write call in progress stands
    seen,          \* local backend: what the last read of an artifact file returned
    flow,          \* call level: flow[j] = the Store calls of job j issued and in progress
    client,        \* external Generator client: where a call of it stands, and how calls ended
    asked          \* history: the last submit request handled and what its fetch resolved to

jobVars == <<pc, request, store, caught, response, faults, statusLog, failedWrites, runs>>
diskVars == <<files, writer, seen>>
vars == <<pc, request, store, caught, response, faults, statusLog, failedWrites, runs,
          files, writer, seen, flow, client, asked>>

\* ------------------------------------------------------------- the Store
\* A path that leaves the job id out.
KeyShared(j, kind) == <<JobOrder[1], kind>>

\* gcs-service.ts:57-59 (and `jobs/${jobId}/...`): the place of an artifact.
Key(j, kind) == <<j, kind>>
Exists(j, kind) == Key(j, kind) \in DOMAIN store
Put(s, k, content) ==
    [x \in DOMAIN s \cup {k} |-> IF x = k THEN content ELSE s[x]]

\* JS truthiness of an optional string.
Truthy(v) == v # Undefined /\ v # ""

\* new Date(): the time of job j's step.  Timestamps of one job are only
\* compared with timestamps of the same job, so the clock is the index of
\* the job's step (strictly increasing along submit and run).
Now(j) ==
    CASE pc[j] = "none" -> 1
      [] pc[j] = "s_csv" -> 2
      [] pc[j] = "s_meta" -> 3
      [] pc[j] = "queued" -> 4
      [] pc[j] = "r_delay" -> 5
      [] pc[j] = "r_output" -> 6
      [] pc[j] = "r_complete" -> 7
      [] pc[j] = "r_catch" -> 8
      [] OTHER -> 9

\* gcs-service.ts:68-95.  readOk = FALSE is an I/O or parse error, which
\* readJobStatus catches and turns into null.
readJobStatus(j, readOk) ==
    IF readOk /\ Exists(j, STATUS) THEN store[Key(j, STATUS)] ELSE Null

readResults(j, readOk) ==
    IF readOk /\ Exists(j, RESULTS) THEN store[Key(j, RESULTS)] ELSE Null

\* A statusData that carries the error field whatever the argument.
StatusDataAlwaysError(status, created_at, updated_at, error) ==
    [status |-> status, created_at |-> created_at, updated_at |-> updated_at,
     error |-> error]

\* gcs-service.ts:104-109: the error field is spread in only when truthy.
StatusData(status, created_at, updated_at, error) ==
    IF Truthy(error)
    THEN [status |-> status, created_at |-> created_at, updated_at |-> updated_at,
          error |-> error]
    ELSE [status |-> status, created_at |-> created_at, updated_at |-> updated_at]

\* gcs-service.ts:97-139.  The store after writeJobStatus(j, status, error):
\* readOk is the outcome of the inner readJobStatus, writeOk that of
\* ensureJobDirectory + save/rename.  The function never throws.
writeJobStatus(j, status, error, readOk, writeOk) ==
    LET existingStatus == readJobStatus(j, readOk)
        created_at == IF existingStatus # Null
                      THEN existingStatus.created_at ELSE Now(j)
    IN  IF writeOk
        THEN Put(store, Key(j, STATUS), StatusData(status, created_at, Now(j), error))
        ELSE store

\* A Store write that lets the error of a failed save out to its caller.
WriteThrowsOnFailure(readOk, writeOk) == ~writeOk

\* gcs-service.ts:135-138 (and 197-200, 236-239, 270-273, 333-336): the body
\* of every Store write is one try whose catch logs and returns false, and
\* readJobStatus (91-94) returns null: whatever the outcome of the read and
\* of the save, nothing is thrown to the caller.
WriteThrows(readOk, writeOk) == FALSE

\* writeCSVContent / writeMetadata / writeResults / writeCSVOutput
\* (gcs-service.ts:169-201, 203-240, 242-274, 305-337): same shape.
writeArtifact(j, kind, content, writeOk) ==
    IF writeOk THEN Put(store, Key(j, kind), content) ELSE store

\* Bookkeeping of one Store write of job j: the fault budget and the history.
FaultCount(readOk, writeOk) ==
    (IF readOk THEN 0 ELSE 1) + (IF writeOk THEN 0 ELSE 1)

CanFail(readOk, writeOk) == faults + FaultCount(readOk, writeOk) <= MaxFaults

\* A failed read of a status record that is not there returns null, as a
\* read that succeeds does: it is not explored as a fault of its own.
ReadCanFail(j, readOk) == readOk \/ Exists(j, STATUS)

NoteWrite(j, what, readOk, writeOk) ==
    /\ faults' = faults + FaultCount(readOk, writeOk)
    /\ failedWrites' =
         IF writeOk THEN failedWrites
         ELSE [failedWrites EXCEPT ![j] = @ \cup {what}]

NoteStatus(j, status, writeOk) ==
    statusLog' = IF writeOk THEN [statusLog EXCEPT ![j] = Append(@, status)]
                 ELSE statusLog

\* ---------------------------------------------------------- the Generator
\* mock-testcase-generator.ts:36-59: lines[0] is the header; every further
\* line becomes a row; rows without any non-empty field are dropped.
parseCSV(csvContent) ==
    IF csvContent = EmptyText THEN << >>
    ELSE SelectSeq(Tail(csvContent), LAMBDA line : line # EmptyLine)

\* String.prototype.toLowerCase, on the Required values of the model.
toLowerCase(s) ==
    CASE s \in {"yes", "Yes", "YES"} -> "yes"
      [] s \in {"true", "True", "TRUE"} -> "true"
      [] s \in {"no", "No", "NO"} -> "no"
      [] OTHER -> s

\* A comparison of the Required value as it is written.
IsRequiredAsWritten(required) ==
    required # Undefined /\ (required = "yes" \/ required = "true")

\* mock-testcase-generator.ts:97: row.Required?.toLowerCase() === 'yes' ||
\* row.Required?.toLowerCase() === 'true'; an absent Required is undefined.
IsRequired(required) ==
    required # Undefined
        /\ (toLowerCase(required) = "yes" \/ toLowerCase(required) = "true")

\* A string the Generator builds is modelled by its pieces, in order: a
\* comma, a double quote and a line feed are pieces of their own, a decimal
\* digit of a number is a piece of its own, and any other piece is a run of
\* characters none of which is a comma, a double quote or a line feed.
Comma == ","
DQuote == "\""
LineFeed == "\n"
Pieces(s) ==
    CASE s = "001" -> <<"001">>
      [] s = "7,8" -> <<"7", Comma, "8">>
      [] s = "7\"8" -> <<"7", DQuote, "8">>
      [] s = "7\n8" -> <<"7", LineFeed, "8">>

\* String(counter): the decimal digits of a natural number.
DigitChars == <<"0", "1", "2", "3", "4", "5", "6", "7", "8", "9">>
RECURSIVE String(_)
String(n) ==
    IF n < 10 THEN <<DigitChars[n + 1]>>
    ELSE String(n \div 10) \o <<DigitChars[(n % 10) + 1]>>

\* A padding that appends the pad instead of prepending it.
RECURSIVE padStartAtEnd(_, _, _)
padStartAtEnd(str, targetLength, padString) ==
    IF Len(str) >= targetLength THEN str
    ELSE padStartAtEnd(str \o <<padString>>, targetLength, padString)

\* String.prototype.padStart(targetLength, padString) for a one-character pad.
RECURSIVE padStart(_, _, _)
padStart(str, targetLength, padString) ==
    IF Len(str) >= targetLength THEN str
    ELSE padStart(<<padString>> \o str, targetLength, padString)

\* mock-testcase-generator.ts:101,111,122,131,143: the template literal
\* `B_${batchNumber}_TC_${String(counter++).padStart(3, '0')}_<suffix>`.
TestCaseID(batchNumber, counter, suffix) ==
    <<"B_">> \o Pieces(batchNumber) \o <<"_TC_">>
        \o padStart(String(counter), 3, "0") \o <<"_">> \o suffix

\* mock-testcase-generator.ts:61-85 (parseCSVLine) and 49-53: the Required and
\* the Source_Field value of a data line.  QuotedLine is the line
\* "last, ""first""" whose only field is quoted: it has no Required value.
Required(row) == IF row = QuotedLine THEN Undefined ELSE row
Source_Field(row) ==
    IF row = QuotedLine THEN <<"last", Comma, " ", DQuote, "first", DQuote>> ELSE << >>

\* mock-testcase-generator.ts:92: row.Source_Field || `Field_${index + 1}`,
\* index counted from 1 here.  No line of the model has a
\* Target_FHIR_Resource, FHIR_Attribute, Transformation_Rule or Data_Type:
\* the texts below hold their defaults 'Resource', 'attribute',
\* 'Direct mapping' and 'string' (lines 93-96).
sourceField(row, index) ==
    IF Source_Field(row) # << >> THEN Source_Field(row)
    ELSE <<"Field_">> \o String(index)

\* mock-testcase-generator.ts:100-107
FunctionalPositive(sf, batchNumber, counter) ==
    [TestCaseID |-> TestCaseID(batchNumber, counter, <<"functional", "_", "positive">>),
     TestDescription |-> <<"Validate successful mapping of ">> \o sf
        \o <<" to Resource.attribute">>,
     TestSteps |-> <<"1. Parse input data containing ">> \o sf
        \o <<LineFeed, "2. Extract ">> \o sf
        \o <<" value", LineFeed, "3. Apply transformation: Direct mapping",
             LineFeed, "4. Map to FHIR Resource.attribute",
             LineFeed, "5. Validate FHIR resource structure">>,
     ExpectedResults |-> <<"FHIR Resource resource created successfully with attribute populated correctly as string">>,
     TestCaseType |-> "FUNCTIONAL", Subtype |-> "POSITIVE"]

\* mock-testcase-generator.ts:110-117
FunctionalNegative(sf, batchNumber, counter) ==
    [TestCaseID |-> TestCaseID(batchNumber, counter, <<"functional", "_", "negative">>),
     TestDescription |-> <<"Validate error handling for invalid ">> \o sf
        \o <<" data">>,
     TestSteps |-> <<"1. Parse input with invalid string for ">> \o sf
        \o <<LineFeed, "2. Attempt transformation: Direct mapping",
             LineFeed, "3. Validation fails for Resource.attribute",
             LineFeed, "4. System logs error with field name and value",
             LineFeed, "5. Return validation error response">>,
     ExpectedResults |-> <<"System returns validation error indicating invalid string for Resource.attribute">>,
     TestCaseType |-> "FUNCTIONAL", Subtype |-> "NEGATIVE"]

\* mock-testcase-generator.ts:120-138
EdgeCase(isRequired, sf, batchNumber, counter) ==
    IF isRequired
    THEN [TestCaseID |-> TestCaseID(batchNumber, counter, <<"edge", "_", "case">>),
          TestDescription |-> <<"Handle missing required field ">> \o sf,
          TestSteps |-> <<"1. Parse input with missing ">> \o sf
             \o <<LineFeed, "2. Validate required field check",
                  LineFeed, "3. System detects missing Resource.attribute",
                  LineFeed, "4. Log validation error",
                  LineFeed, "5. Return appropriate error response">>,
          ExpectedResults |-> <<"System returns error indicating required field ">>
             \o sf \o <<" is missing from Resource">>,
          TestCaseType |-> "EDGE", Subtype |-> "NEGATIVE"]
    ELSE [TestCaseID |-> TestCaseID(batchNumber, counter, <<"edge", "_", "case">>),
          TestDescription |-> <<"Handle optional field ">> \o sf \o <<" when empty">>,
          TestSteps |-> <<"1. Parse input with empty ">> \o sf
             \o <<LineFeed, "2. Check if field is optional",
                  LineFeed, "3. Skip mapping for Resource.attribute",
                  LineFeed, "4. Proceed with other mappings",
                  LineFeed, "5. Create FHIR resource without this attribute">>,
          ExpectedResults |-> <<"FHIR Resource resource created successfully with attribute omitted (optional field)">>,
          TestCaseType |-> "EDGE", Subtype |-> "POSITIVE"]

\* mock-testcase-generator.ts:142-149
Regression(sf, batchNumber, counter) ==
    [TestCaseID |-> TestCaseID(batchNumber, counter, <<"regression", "_", "positive">>),
     TestDescription |-> <<"Verify mapping consistency for ">> \o sf
        \o <<" after system updates">>,
     TestSteps |-> <<"1. Establish baseline mapping for ">> \o sf
        \o <<LineFeed, "2. Apply system update/patch", LineFeed, "3. Re-test ">>
        \o sf \o <<" to Resource.attribute mapping",
                   LineFeed, "4. Compare results with baseline",
                   LineFeed, "5. Validate no regression in mapping logic">>,
     ExpectedResults |-> sf \o <<" to Resource.attribute mapping produces identical results to baseline; no regression detected">>,
     TestCaseType |-> "REGRESSION", Subtype |-> "POSITIVE"]

\* Row cases without any regression case.
RowCasesNoRegression(row, index, batchNumber, counter) ==
    LET sf == sourceField(row, index)
    IN  << FunctionalPositive(sf, batchNumber, counter),
           FunctionalNegative(sf, batchNumber, counter + 1),
           EdgeCase(IsRequired(Required(row)), sf, batchNumber, counter + 2) >>

\* Row cases that begin with the functional negative case.
RowCasesNegativeFirst(row, index, batchNumber, counter) ==
    LET sf == sourceField(row, index)
    IN  << FunctionalNegative(sf, batchNumber, counter),
           FunctionalPositive(sf, batchNumber, counter + 1),
           EdgeCase(IsRequired(Required(row)), sf, batchNumber, counter + 2) >>
        \o (IF index % 3 = 0
            THEN << Regression(sf, batchNumber, counter + 3) >>
            ELSE << >>)

\* Row cases whose regression case takes the number of the edge case.
RowCasesSharedCounter(row, index, batchNumber, counter) ==
    LET sf == sourceField(row, index)
    IN  << FunctionalPositive(sf, batchNumber, counter),
           FunctionalNegative(sf, batchNumber, counter + 1),
           EdgeCase(IsRequired(Required(row)), sf, batchNumber, counter + 2) >>
        \o (IF index % 3 = 0
            THEN << Regression(sf, batchNumber, counter + 2) >>
            ELSE << >>)

\* mock-testcase-generator.ts:91-151: the test cases of row number index
\* (1-based), the first of them numbered counter.
RowCases(row, index, batchNumber, counter) ==
    LET sf == sourceField(row, index)
    IN  << FunctionalPositive(sf, batchNumber, counter),
           FunctionalNegative(sf, batchNumber, counter + 1),
           EdgeCase(IsRequired(Required(row)), sf, batchNumber, counter + 2) >>
        \o (IF index % 3 = 0
            THEN << Regression(sf, batchNumber, counter + 3) >>
            ELSE << >>)

RECURSIVE GenFrom(_, _, _, _)
GenFrom(csvRows, index, batchNumber, counter) ==
    IF index > Len(csvRows) THEN << >>
    ELSE LET cases == RowCases(csvRows[index], index, batchNumber, counter)
         IN  cases \o GenFrom(csvRows, index + 1, batchNumber, counter + Len(cases))

\* mock-testcase-generator.ts:87-154
generateTestCasesFromCSV(csvRows, batchNumber) ==
    GenFrom(csvRows, 1, batchNumber, 1)

\* mock-testcase-generator.ts:160-163: the two breakdown counters.
CountType(testCases, t) ==
    Cardinality({i \in 1..Len(testCases) : testCases[i].TestCaseType = t})
CountSubtype(testCases, t) ==
    Cardinality({i \in 1..Len(testCases) : testCases[i].Subtype = t})

\* Statistics whose counters are set instead of incremented.
calculateStatisticsSet(testCases, csvRows) ==
    [TotalTestCases |-> Len(testCases),
     TestCaseTypeBreakdown |->
        [t \in {testCases[i].TestCaseType : i \in 1..Len(testCases)} |-> 1],
     SubtypeBreakdown |->
        [t \in {testCases[i].Subtype : i \in 1..Len(testCases)} |-> 1],
     MappingRows |-> Len(csvRows)]

\* mock-testcase-generator.ts:156-174
calculateStatistics(testCases, csvRows) ==
    [TotalTestCases |-> Len(testCases),
     TestCaseTypeBreakdown |->
        [t \in {testCases[i].TestCaseType : i \in 1..Len(testCases)} |->
            CountType(testCases, t)],
     SubtypeBreakdown |->
        [t \in {testCases[i].Subtype : i \in 1..Len(testCases)} |->
            CountSubtype(testCases, t)],
     MappingRows |-> Len(csvRows)]

\* mock-testcase-generator.ts:212-223: the TestCaseResponse of a request.
BuildResponse(req, generated_at) ==
    LET csvRows == parseCSV(req.csv_mapping)
        testCases == generateTestCasesFromCSV(csvRows, req.batch_number)
    IN  [TestCases |-> testCases,
         StatisticalSummary |-> calculateStatistics(testCases, csvRows),
         github_url |-> req.github_url,
         generated_at |-> generated_at]

\* value.replace(/"/g, '""')
RECURSIVE replaceQuotes(_)
replaceQuotes(value) ==
    IF value = << >> THEN << >>
    ELSE (IF Head(value) = DQuote THEN <<DQuote, DQuote>> ELSE <<Head(value)>>)
            \o replaceQuotes(Tail(value))

\* An escapeCSV that looks for a comma only.
escapeCSVCommaOnly(value) ==
    IF \E i \in 1..Len(value) : value[i] = Comma
    THEN <<DQuote>> \o replaceQuotes(value) \o <<DQuote>>
    ELSE value

\* An escapeCSV that wraps the value without doubling its double quotes.
escapeCSVNoDoubling(value) ==
    IF \E i \in 1..Len(value) : value[i] \in {Comma, DQuote, LineFeed}
    THEN <<DQuote>> \o value \o <<DQuote>>
    ELSE value

\* gcs-service.ts:382-387
escapeCSV(value) ==
    IF \E i \in 1..Len(value) : value[i] \in {Comma, DQuote, LineFeed}
    THEN <<DQuote>> \o replaceQuotes(value) \o <<DQuote>>
    ELSE value

\* Array.prototype.join(separator) of an array of strings.
RECURSIVE join(_, _)
join(strings, separator) ==
    IF strings = << >> THEN << >>
    ELSE IF Len(strings) = 1 THEN strings[1]
    ELSE strings[1] \o <<separator>> \o join(Tail(strings), separator)

\* gcs-service.ts:367-380: the header line, then one line per test case.
CsvHeader == <<"TestCaseID", "TestDescription", "TestSteps", "ExpectedResults",
               "TestCaseType", "Subtype">>
generateCSV(testCases) ==
    LET headers == [i \in 1..Len(CsvHeader) |-> <<CsvHeader[i]>>]
        rows == [i \in 1..Len(testCases) |->
                    << escapeCSV(testCases[i].TestCaseID),
                       escapeCSV(testCases[i].TestDescription),
                       escapeCSV(testCases[i].TestSteps),
                       escapeCSV(testCases[i].ExpectedResults),
                       escapeCSV(<<testCases[i].TestCaseType>>),
                       escapeCSV(<<testCases[i].Subtype>>) >>]
        csvLines == <<join(headers, Comma)>>
                        \o [i \in 1..Len(rows) |-> join(rows[i], Comma)]
    IN  join(csvLines, LineFeed)

\* ------------------------------------------ the local backend, file by file
\* One Store write of the lifecycle model is, in the local backend, the
\* statements of gcs-service.ts:123-132 (and 185-194, 224-233, 258-267,
\* 321-330): fs.writeFile(tempPath, text), then fs.rename(tempPath, filePath).
\* fs.writeFile creates or truncates the file and then fills it; the text of
\* a value is MaxChunks chunks long.
Text(value) == [i \in 1..MaxChunks |-> <<value, i>>]
Complete(text) == \E i \in 1..Len(LocalWrites) : text = Text(LocalWrites[i].value)

\* A write that fills the artifact's own file.
tempPathInPlace(j, kind, hex) == <<j, kind>>

\* gcs-service.ts:125-126: the temp file is the artifact's path with a random
\* suffix.
tempPath(j, kind, hex) == <<j, kind, "tmp", hex>>

\* What the last finished write function returned: ok is the boolean, threw
\* tells whether it threw instead of returning.
NotReturned == [kind |-> "", value |-> "", ok |-> FALSE, threw |-> FALSE]
Returned(call, ok, threw) ==
    [kind |-> call.kind, value |-> call.value, ok |-> ok, threw |-> threw]

WriterStart == [call |-> 1, at |-> "begin", temp |-> << >>, written |-> 0,
                failed |-> 0, renamed |-> {}, returned |-> NotReturned]
NotRead == [kind |-> "", found |-> FALSE, content |-> << >>]

Remove(f, path) == [x \in DOMAIN f \ {path} |-> f[x]]

Writing == writer.call <= Len(LocalWrites)
Call == LocalWrites[writer.call]

\* fs.writeFile(tempPath, ...) opens the file: it exists and is empty.
DiskOpen(hex) ==
    /\ Writing /\ writer.at = "begin"
    /\ files' = Put(files, tempPath(DiskJob, Call.kind, hex), << >>)
    /\ writer' = [writer EXCEPT !.at = "file", !.written = 0,
                                 !.temp = tempPath(DiskJob, Call.kind, hex)]
    /\ UNCHANGED seen

\* fs.writeFile writes the next chunk of the text; after the last one it
\* resolves.
DiskWriteChunk ==
    /\ Writing /\ writer.at = "file"
    /\ files' = Put(files, writer.temp,
                    Append(files[writer.temp], Text(Call.value)[writer.written + 1]))
    /\ writer' = [writer EXCEPT !.written = @ + 1,
                                 !.at = IF writer.written + 1 = MaxChunks
                                        THEN "rename" ELSE "file"]
    /\ UNCHANGED seen

\* fs.rename(tempPath, filePath) replaces the artifact in one step; the write
\* function returns true and the job goes on to its next write.
DiskRename ==
    /\ Writing /\ writer.at = "rename"
    /\ files' = Remove(Put(files, Key(DiskJob, Call.kind), files[writer.temp]),
                       writer.temp)
    /\ writer' = [writer EXCEPT !.call = @ + 1, !.at = "begin", !.temp = << >>,
                                 !.written = 0,
                                 !.renamed = @ \cup {<<Call.kind, Call.value>>},
                                 !.returned = Returned(Call, TRUE, FALSE)]
    /\ UNCHANGED seen

\* A failing write whose catch returns true.
DiskFailReturnsTrue ==
    /\ Writing
    /\ writer.failed < MaxFaults
    /\ writer' = [writer EXCEPT !.call = @ + 1, !.at = "begin", !.temp = << >>,
                                 !.written = 0, !.failed = @ + 1,
                                 !.returned = Returned(Call, TRUE, FALSE)]
    /\ UNCHANGED <<files, seen>>

\* mkdir, writeFile or rename throws: the catch returns false, whatever is on
\* disk stays, and the job goes on to its next write.
DiskFail ==
    /\ Writing
    /\ writer.failed < MaxFaults
    /\ writer' = [writer EXCEPT !.call = @ + 1, !.at = "begin", !.temp = << >>,
                                 !.written = 0, !.failed = @ + 1,
                                 !.returned = Returned(Call, FALSE,
                                                       WriteThrows(TRUE, FALSE))]
    /\ UNCHANGED <<files, seen>>

\* gcs-service.ts:82-89, 155-161, 290-297, 353-359: existsSync(filePath),
\* then fs.readFile(filePath).
DiskRead(kind) ==
    /\ seen' = IF Key(DiskJob, kind) \in DOMAIN files
               THEN [kind |-> kind, found |-> TRUE, content |-> files[Key(DiskJob, kind)]]
               ELSE [kind |-> kind, found |-> FALSE, content |-> << >>]
    /\ seen' # seen
    /\ UNCHANGED <<files, writer>>

DiskNext ==
    \/ \E hex \in HexNames : DiskOpen(hex) /\ UNCHANGED <<jobVars, flow, client, asked>>
    \/ DiskWriteChunk /\ UNCHANGED <<jobVars, flow, client, asked>>
    \/ DiskRename /\ UNCHANGED <<jobVars, flow, client, asked>>
    \/ DiskFail /\ UNCHANGED <<jobVars, flow, client, asked>>
    \/ \E kind \in ArtifactKinds : DiskRead(kind) /\ UNCHANGED <<jobVars, flow, client, asked>>

\* ------------------------------------------- the Store calls, call by call
\* The Store calls of one job in the order of the code: those of
\* generateTestCases (mock-testcase-generator.ts:186, 189, 200), those of the
\* setImmediate callback (206, 226, 230, 233) and that of its catch block
\* (238).  A call is in progress from the moment it is made until its promise
\* settles; a call of writeJobStatus reads the existing record (gcs-service.ts
\* 101) before it saves (115 / 128-129).
FlowCalls ==
    << [kind |-> STATUS, value |-> "pending"],
       [kind |-> INPUT, value |-> "input"],
       [kind |-> METADATA, value |-> "metadata"],
       [kind |-> STATUS, value |-> "processing"],
       [kind |-> RESULTS, value |-> "results"],
       [kind |-> OUTPUT, value |-> "output"],
       [kind |-> STATUS, value |-> "completed"],
       [kind |-> STATUS, value |-> "failed"] >>
CatchCall == 8
FlowEnded == 9

\* next: the call the code makes next; waiting: the call whose promise the
\* code awaits (0: none); inflight: the calls in progress; readDone: the
\* status calls in progress that have read the existing record; saved: the
\* status calls whose save took effect, in the order in which they did.
FlowStart == [next |-> 1, waiting |-> 0, inflight |-> {}, readDone |-> {},
              saved |-> << >>]

\* A code in which the Store calls of generateTestCases are not awaited.
AwaitedNever(k) == k > 3

\* mock-testcase-generator.ts:186-238: every Store call is made as
\* `await gcsService.write...(...)`.
Awaited(k) == TRUE

\* The call after call k in the code: after completed (and after the catch
\* block) the callback ends.
FlowAfter(k) == IF k >= 7 THEN FlowEnded ELSE k + 1

\* The code is not suspended in an await and makes its next Store call.
FlowBegin(j) ==
    LET k == flow[j].next
    IN  /\ flow[j].waiting = 0
        /\ k < FlowEnded
        /\ flow' = [flow EXCEPT ![j].inflight = @ \cup {k},
                                ![j].waiting = IF Awaited(k) THEN k ELSE 0,
                                ![j].next = FlowAfter(k)]

\* gcs-service.ts:101: a writeJobStatus in progress reads the existing record.
FlowRead(j, k) ==
    /\ k \in flow[j].inflight \ flow[j].readDone
    /\ FlowCalls[k].kind = STATUS
    /\ flow' = [flow EXCEPT ![j].readDone = @ \cup {k}]

\* The save of a call in progress takes effect (ok) or fails; the promise
\* settles, and the code that awaits it goes on.
FlowEnd(j, k, ok) ==
    /\ k \in flow[j].inflight
    /\ FlowCalls[k].kind = STATUS => k \in flow[j].readDone
    /\ flow' = [flow EXCEPT ![j].inflight = @ \ {k},
                            ![j].readDone = @ \ {k},
                            ![j].waiting = IF @ = k THEN 0 ELSE @,
                            ![j].saved = IF ok /\ FlowCalls[k].kind = STATUS
                                         THEN Append(@, k) ELSE @]

\* mock-testcase-generator.ts:212-223, 229: the Generator code before the
\* results write or before the output write throws; the catch block is next.
FlowThrow(j) ==
    /\ flow[j].waiting = 0
    /\ flow[j].next \in {5, 6}
    /\ flow' = [flow EXCEPT ![j].next = CatchCall]

FlowNext ==
    \/ \E j \in JobIds : FlowBegin(j) /\ UNCHANGED <<jobVars, diskVars, client, asked>>
    \/ \E j \in JobIds : \E k \in 1..Len(FlowCalls) :
          FlowRead(j, k) /\ UNCHANGED <<jobVars, diskVars, client, asked>>
    \/ \E j \in JobIds : \E k \in 1..Len(FlowCalls) : \E ok \in BOOLEAN :
          FlowEnd(j, k, ok) /\ UNCHANGED <<jobVars, diskVars, client, asked>>
    \/ \E j \in JobIds : FlowThrow(j) /\ UNCHANGED <<jobVars, diskVars, client, asked>>

\* ------------------------------------------ the external Generator client
\* VertexAIService.generateTestCases (mock-testcase-generator.ts:342-390)
\* posts the request to the external service and awaits the answer.  What the
\* service does with one call: the connection fails (fetch rejects with the
\* TypeError 'fetch failed'), or an HTTP response arrives with a status and a
\* body; a body is not JSON, or is the JSON null, or a JSON object without
\* TestCases, or a result with TestCases.
Json(value) == [json |-> TRUE, value |-> value]
NotJson == [json |-> FALSE, value |-> Null]
JsonNoTestCases == Json([message |-> "busy"])
ServiceResult(batchNumber) ==
    Json([TestCases |->
            << [TestCaseID |-> <<"B_">> \o Pieces(batchNumber) \o <<"_TC_001_service">>] >>])
Bodies(batchNumber) ==
    {NotJson, Json(Null), JsonNoTestCases, ServiceResult(batchNumber)}
ConnectionFails == [kind |-> "rejects", message |-> <<"fetch", " failed">>]
HttpResponse(status, statusText, body) ==
    [kind |-> "response", ok |-> status \in 200..299, status |-> status,
     statusText |-> statusText, body |-> body]
ServiceAnswers(batchNumber) ==
    {ConnectionFails}
        \cup {HttpResponse(200, "OK", body) : body \in Bodies(batchNumber)}
        \cup {HttpResponse(503, "Service Unavailable", body) :
                body \in {NotJson, ServiceResult(batchNumber)}}
        \cup {HttpResponse(404, "Not Found", NotJson)}

\* mock-testcase-generator.ts:413-442
createFallbackResponse(batchNumber) ==
    [TestCases |->
        << [TestCaseID |-> <<"B_">> \o Pieces(batchNumber)
                              \o <<"_TC_001_functional_positive">>,
            TestCaseType |-> "FUNCTIONAL", Subtype |-> "POSITIVE"] >>,
     StatisticalSummary |->
        [MappingRows |-> 1, UniqueAttributes |-> 1,
         TestCaseTypeBreakdown |-> [t \in {"FUNCTIONAL"} |-> 1],
         SubtypeBreakdown |-> [t \in {"POSITIVE"} |-> 1],
         TotalTestCases |-> 1]]

\* String.prototype.includes of a message for a word: a message is modelled
\* by its pieces, a word it may be searched for being a piece of its own.
includes(message, word) == \E i \in 1..Len(message) : message[i] = word

\* The status code as it is written in a message.
StatusText(status) ==
    CASE status = 200 -> "200" [] status = 404 -> "404" [] status = 503 -> "503"

NoAnswer == [kind |-> "none"]
NoError == << >>
NoResult == [none |-> TRUE]
ClientStart ==
    [at |-> "idle", batch_number |-> "", answer |-> NoAnswer, error |-> NoError,
     returned |-> NoResult, thrown |-> NoError, calls |-> 0, ended |-> {}]

\* How a call ended for an answer of the service: history.
Ended(answer, how) == [answer |-> answer, how |-> how]

\* mock-testcase-generator.ts:342-359: the call is made and fetch awaited.
ClientCall(batchNumber, answer) ==
    /\ client.at = "idle"
    /\ client.calls < MaxCalls
    /\ client' = [client EXCEPT !.at = "fetch", !.batch_number = batchNumber,
                                !.calls = @ + 1,
                                !.answer = answer, !.error = NoError,
                                !.returned = NoResult, !.thrown = NoError]

\* mock-testcase-generator.ts:350, 361-363: fetch rejects, or resolves with a
\* response; a response that is not ok makes the code throw.
ClientFetch ==
    /\ client.at = "fetch"
    /\ client' =
          IF client.answer.kind = "rejects"
          THEN [client EXCEPT !.at = "catch", !.error = client.answer.message]
          ELSE IF ~client.answer.ok
          THEN [client EXCEPT
                   !.at = "catch",
                   !.error = <<"FastAPI service error: ",
                               StatusText(client.answer.status), " ",
                               client.answer.statusText>>]
          ELSE [client EXCEPT !.at = "json"]

\* mock-testcase-generator.ts:365-376: response.json() rejects with a
\* SyntaxError for a body that is not JSON; a result that is missing or has
\* no TestCases is answered with the fallback; any other result is returned.
ClientJson ==
    /\ client.at = "json"
    /\ client' =
          IF ~client.answer.body.json
          THEN [client EXCEPT
                   !.at = "catch",
                   !.error = <<"Unexpected token ", "<", " in JSON at position 0">>]
          ELSE IF \/ client.answer.body.value = Null
                  \/ "TestCases" \notin DOMAIN client.answer.body.value
          THEN [client EXCEPT
                   !.at = "returned",
                   !.returned = createFallbackResponse(client.batch_number),
                   !.ended = @ \cup {Ended(client.answer, "fallback")}]
          ELSE [client EXCEPT
                   !.at = "returned",
                   !.returned = client.answer.body.value,
                   !.ended = @ \cup {Ended(client.answer, "result")}]

\* mock-testcase-generator.ts:378-388: the catch returns the fallback when
\* the error's message includes 'fetch' or 'ECONNREFUSED', and throws a new
\* Error otherwise.
ClientCatch ==
    /\ client.at = "catch"
    /\ client' =
          IF includes(client.error, "fetch") \/ includes(client.error, "ECONNREFUSED")
          THEN [client EXCEPT
                   !.at = "returned",
                   !.returned = createFallbackResponse(client.batch_number),
                   !.ended = @ \cup {Ended(client.answer, "fallback")}]
          ELSE [client EXCEPT
                   !.at = "threw",
                   !.thrown = <<"Test case generation failed: ">> \o client.error,
                   !.ended = @ \cup {Ended(client.answer, "error")}]

\* routes.ts:28-53: the route answers with the result, or with 500 for a
\* throw; the client is called again by the next request.
ClientAnswered ==
    /\ client.at \in {"returned", "threw"}
    /\ client' = [client EXCEPT !.at = "idle"]

ClientNext ==
    \/ \E batchNumber \in GenBatchNumbers :
       \E answer \in ServiceAnswers(batchNumber) :
          ClientCall(batchNumber, answer) /\ UNCHANGED <<jobVars, diskVars, flow, asked>>
    \/ ClientFetch /\ UNCHANGED <<jobVars, diskVars, flow, asked>>
    \/ ClientJson /\ UNCHANGED <<jobVars, diskVars, flow, asked>>
    \/ ClientCatch /\ UNCHANGED <<jobVars, diskVars, flow, asked>>
    \/ ClientAnswered /\ UNCHANGED <<jobVars, diskVars, flow, asked>>

\* ------------------------------------------------------------------- Init
NoResponse == [op |-> "none", job_id |-> "", code |-> 0, body |-> [error |-> ""]]

Init ==
    /\ pc = [j \in JobIds |-> "none"]
    /\ request = [j \in JobIds |-> [csv_mapping |-> << >>]]
    /\ store = [k \in {} |-> Null]
    /\ caught = [j \in JobIds |-> NoThrow]
    /\ response = NoResponse
    /\ faults = 0
    /\ statusLog = [j \in JobIds |-> << >>]
    /\ failedWrites = [j \in JobIds |-> {}]
    /\ runs = [j \in JobIds |-> 0]
    /\ files = [path \in {} |-> << >>]
    /\ writer = WriterStart
    /\ seen = NotRead
    /\ flow = [j \in JobIds |-> FlowStart]
    /\ client = ClientStart
    /\ asked = NoAsk

\* ----------------------------------------------------------------- submit
\* routes.ts:330-339: the fields on which schema.parse throws a ZodError
\* (z.string().min(1)).
InvalidFields(body) ==
    {f \in {"batch_number", "user_id"} : f \notin DOMAIN body \/ body[f] = ""}

\* The message of the ZodError names the fields.
ZodMessage(fields) ==
    CASE fields = {"batch_number"} -> "ZodError: batch_number"
      [] fields = {"user_id"} -> "ZodError: user_id"
      [] OTHER -> "ZodError: batch_number, user_id"

\* routes.ts:348
HasGithubUrl(body) == "github_url" \in DOMAIN body /\ body.github_url # ""

\* routes.ts:348-350: the fetch is made only for a body with a github_url.
Fetches(body) == IF HasGithubUrl(body) THEN FetchOutcomes ELSE {NoFetch}

\* A csvContent that keeps the inline csv_mapping when there is one.
ResolveCsvInlineFirst(body, csvResult) ==
    IF "csv_mapping" \in DOMAIN body /\ body.csv_mapping # EmptyText
    THEN body.csv_mapping
    ELSE IF HasGithubUrl(body) THEN csvResult.content
    ELSE EmptyText

\* routes.ts:345-362: csvContent once the fetch, if any, has succeeded.
ResolveCsv(body, csvResult) ==
    IF HasGithubUrl(body) THEN csvResult.content
    ELSE IF "csv_mapping" \in DOMAIN body THEN body.csv_mapping
    ELSE EmptyText

SubmitError(code, error, details) ==
    [op |-> "submit", job_id |-> "", code |-> code,
     body |-> [error |-> error, details |-> details]]

\* A route that does not look at what the CSV source resolved to.
SubmitRejectionUnchecked(body, csvResult) ==
    IF InvalidFields(body) # {}
    THEN SubmitError(500, "Failed to start test case generation",
                     ZodMessage(InvalidFields(body)))
    ELSE IF HasGithubUrl(body) /\ ~csvResult.success
    THEN SubmitError(400, "Failed to fetch CSV from GitHub", csvResult.error)
    ELSE NoResponse

\* routes.ts:339-370 and 385-392: the error response of the submit route, or
\* NoResponse when the route goes on to generateTestCases.
SubmitRejection(body, csvResult) ==
    IF InvalidFields(body) # {}
    THEN SubmitError(500, "Failed to start test case generation",
                     ZodMessage(InvalidFields(body)))
    ELSE IF HasGithubUrl(body) /\ (~csvResult.success \/ csvResult.content = EmptyText)
    THEN SubmitError(400, "Failed to fetch CSV from GitHub", csvResult.error)
    ELSE IF ResolveCsv(body, csvResult) = EmptyText
    THEN SubmitError(400, "No CSV content provided",
                     "Either csv_mapping or github_url must be provided")
    ELSE NoResponse

\* routes.ts:373-376: { ...validatedData, csv_mapping: csvContent }
TestCaseRequest(body, csvResult) ==
    [csv_mapping |-> ResolveCsv(body, csvResult),
     batch_number |-> body.batch_number,
     user_id |-> body.user_id,
     github_url |-> IF "github_url" \in DOMAIN body THEN body.github_url ELSE Undefined]

\* routes.ts:378-383
SubmitAccepted(j) ==
    [op |-> "submit", job_id |-> j, code |-> 200,
     body |-> [job_id |-> j, message |-> "Test case generation started",
               status_url |-> <<"/api/status/", j>>,
               results_url |-> <<"/api/results/", j>>]]

\* A route that starts the job before it answers with the error.
SubmitRejectAfterStart(body, csvResult) ==
    /\ response = NoResponse
    /\ SubmitRejection(body, csvResult) # NoResponse
    /\ \E j \in JobIds : pc[j] = "none"
    /\ response' = SubmitRejection(body, csvResult)
    /\ store' = Put(store, Key(CHOOSE j \in JobIds : pc[j] = "none", STATUS),
                    StatusData("pending", 0, 0, Undefined))
    /\ UNCHANGED <<pc, request, caught, faults, statusLog, failedWrites, runs>>

\* routes.ts:328-370, 385-392: a submit that is answered with an error.
SubmitReject(body, csvResult) ==
    /\ response = NoResponse
    /\ SubmitRejection(body, csvResult) # NoResponse
    /\ response' = SubmitRejection(body, csvResult)
    /\ UNCHANGED <<pc, request, store, caught, faults, statusLog, failedWrites, runs>>

\* The ids of JobOrder that no job has; the model takes submits while one is
\* left.
Unused == {i \in 1..Len(JobOrder) : pc[JobOrder[i]] = "none"}

\* A uuidv4() that returns the same id at every call.
uuidv4Repeated == JobOrder[1]

\* mock-testcase-generator.ts:180: the id uuidv4() returns is the first one
\* that no job has (a version-4 UUID is 122 random bits: two calls are taken
\* to return different ids).
uuidv4 == JobOrder[CHOOSE i \in Unused : \A k \in Unused : i <= k]

\* routes.ts:328-376 calling mock-testcase-generator.ts:176-186: the route has
\* resolved a non-empty csvContent; generateTestCases draws jobId = uuidv4()
\* and writes the pending status.  The boolean that writeJobStatus returns is
\* not looked at.
SubmitWritePending(j, body, csvResult, readOk, writeOk) ==
    /\ Unused # {}
    /\ j = uuidv4
    /\ SubmitRejection(body, csvResult) = NoResponse
    /\ ReadCanFail(j, readOk)
    /\ CanFail(readOk, writeOk)
    /\ request' = [request EXCEPT ![j] = TestCaseRequest(body, csvResult)]
    /\ store' = writeJobStatus(j, "pending", Undefined, readOk, writeOk)
    /\ NoteWrite(j, "pending", readOk, writeOk)
    /\ NoteStatus(j, "pending", writeOk)
    /\ pc' = [pc EXCEPT ![j] = "s_csv"]
    /\ UNCHANGED <<caught, response, runs>>

\* A submit that goes on to the metadata without writing the input CSV.
SubmitWriteCSVSkipped(j, writeOk) ==
    /\ pc[j] = "s_csv"
    /\ writeOk
    /\ pc' = [pc EXCEPT ![j] = "s_meta"]
    /\ UNCHANGED <<request, store, caught, response, faults, statusLog,
                   failedWrites, runs>>

\* mock-testcase-generator.ts:188-189
SubmitWriteCSV(j, writeOk) ==
    /\ pc[j] = "s_csv"
    /\ CanFail(TRUE, writeOk)
    /\ store' = writeArtifact(j, INPUT, request[j].csv_mapping, writeOk)
    /\ NoteWrite(j, INPUT, TRUE, writeOk)
    /\ pc' = [pc EXCEPT ![j] = "s_meta"]
    /\ UNCHANGED <<request, caught, response, statusLog, runs>>

\* mock-testcase-generator.ts:191-246 and routes.ts:378-383: the metadata
\* write, then setImmediate schedules the run and the job id is returned.
\* None of the three writes throws (each catches and returns false), so the
\* catch of generateTestCases (247-251) is never entered.
SubmitWriteMetadata(j, writeOk) ==
    /\ pc[j] = "s_meta"
    /\ CanFail(TRUE, writeOk)
    /\ store' = writeArtifact(j, METADATA,
                   [params |-> [batch_number |-> request[j].batch_number,
                                user_id |-> request[j].user_id,
                                csv_length |-> Len(request[j].csv_mapping),
                                github_url |-> request[j].github_url],
                    created_at |-> Now(j)],
                   writeOk)
    /\ NoteWrite(j, METADATA, TRUE, writeOk)
    /\ pc' = [pc EXCEPT ![j] = "queued"]
    /\ response' = SubmitAccepted(j)
    /\ UNCHANGED <<request, caught, statusLog, runs>>

\* ------------------------------------------------------ the background run
\* mock-testcase-generator.ts:203-210
RunProcessing(j, readOk, writeOk) ==
    /\ pc[j] = "queued"
    /\ ReadCanFail(j, readOk)
    /\ CanFail(readOk, writeOk)
    /\ store' = writeJobStatus(j, "processing", Undefined, readOk, writeOk)
    /\ NoteWrite(j, "processing", readOk, writeOk)
    /\ NoteStatus(j, "processing", writeOk)
    /\ pc' = [pc EXCEPT ![j] = "r_delay"]
    /\ runs' = [runs EXCEPT ![j] = @ + 1]
    /\ UNCHANGED <<request, caught, response>>

\* A run that writes the output CSV where it should write the results.
RunGenerateOutputFirst(j, outcome, writeOk) ==
    /\ pc[j] = "r_delay"
    /\ outcome = NoThrow
    /\ CanFail(TRUE, writeOk)
    /\ store' = writeArtifact(j, OUTPUT,
                   generateCSV(BuildResponse(request[j], 0).TestCases), writeOk)
    /\ NoteWrite(j, OUTPUT, TRUE, writeOk)
    /\ pc' = [pc EXCEPT ![j] = "r_output"]
    /\ UNCHANGED <<request, caught, response, statusLog, runs>>

\* mock-testcase-generator.ts:212-226: after the delay, parse, generate,
\* compute the statistics and write the results; a throw goes to the catch.
RunGenerate(j, outcome, writeOk) ==
    /\ pc[j] = "r_delay"
    /\ IF outcome = NoThrow
       THEN /\ CanFail(TRUE, writeOk)
            /\ store' = writeArtifact(j, RESULTS, BuildResponse(request[j], Now(j)), writeOk)
            /\ NoteWrite(j, RESULTS, TRUE, writeOk)
            /\ pc' = [pc EXCEPT ![j] = "r_output"]
            /\ UNCHANGED caught
       ELSE /\ writeOk
            /\ caught' = [caught EXCEPT ![j] = outcome]
            /\ pc' = [pc EXCEPT ![j] = "r_catch"]
            /\ UNCHANGED <<store, faults, failedWrites>>
    /\ UNCHANGED <<request, response, statusLog, runs>>

\* mock-testcase-generator.ts:228-230
RunWriteOutput(j, outcome, writeOk) ==
    /\ pc[j] = "r_output"
    /\ IF outcome = NoThrow
       THEN /\ CanFail(TRUE, writeOk)
            /\ store' = writeArtifact(j, OUTPUT,
                           generateCSV(BuildResponse(request[j], 0).TestCases), writeOk)
            /\ NoteWrite(j, OUTPUT, TRUE, writeOk)
            /\ pc' = [pc EXCEPT ![j] = "r_complete"]
            /\ UNCHANGED caught
       ELSE /\ writeOk
            /\ caught' = [caught EXCEPT ![j] = outcome]
            /\ pc' = [pc EXCEPT ![j] = "r_catch"]
            /\ UNCHANGED <<store, faults, failedWrites>>
    /\ UNCHANGED <<request, response, statusLog, runs>>

\* A run that ends without writing the completed status.
RunCompleteSilent(j, readOk, writeOk) ==
    /\ pc[j] = "r_complete"
    /\ readOk /\ writeOk
    /\ pc' = [pc EXCEPT ![j] = "done"]
    /\ UNCHANGED <<request, store, caught, response, faults, statusLog,
                   failedWrites, runs>>

\* mock-testcase-generator.ts:232-235
RunComplete(j, readOk, writeOk) ==
    /\ pc[j] = "r_complete"
    /\ ReadCanFail(j, readOk)
    /\ CanFail(readOk, writeOk)
    /\ store' = writeJobStatus(j, "completed", Undefined, readOk, writeOk)
    /\ NoteWrite(j, "completed", readOk, writeOk)
    /\ NoteStatus(j, "completed", writeOk)
    /\ pc' = [pc EXCEPT ![j] = "done"]
    /\ UNCHANGED <<request, caught, response, runs>>

\* mock-testcase-generator.ts:238
CatchMessage(error) == IF error.isError THEN error.message ELSE "Unknown error"

\* A catch block that schedules the run again after writing failed.
RunCatchRetry(j, readOk, writeOk) ==
    /\ pc[j] = "r_catch"
    /\ ReadCanFail(j, readOk)
    /\ CanFail(readOk, writeOk)
    /\ store' = writeJobStatus(j, "failed", CatchMessage(caught[j]), readOk, writeOk)
    /\ NoteWrite(j, "failed", readOk, writeOk)
    /\ NoteStatus(j, "failed", writeOk)
    /\ pc' = [pc EXCEPT ![j] = "queued"]
    /\ UNCHANGED <<request, caught, response, runs>>

\* mock-testcase-generator.ts:236-239: the catch block is not inside a try of
\* its own; an error thrown by its writeJobStatus would reject the promise of
\* the setImmediate callback, which nothing handles ("unhandled").
RunCatch(j, readOk, writeOk) ==
    /\ pc[j] = "r_catch"
    /\ ReadCanFail(j, readOk)
    /\ CanFail(readOk, writeOk)
    /\ store' = writeJobStatus(j, "failed", CatchMessage(caught[j]), readOk, writeOk)
    /\ NoteWrite(j, "failed", readOk, writeOk)
    /\ NoteStatus(j, "failed", writeOk)
    /\ pc' = [pc EXCEPT ![j] = IF WriteThrows(readOk, writeOk)
                               THEN "unhandled" ELSE "done"]
    /\ UNCHANGED <<request, caught, response, runs>>

\* ------------------------------------------------------ the polling routes
JsonNull == "<null>"

NotFound(op, j) ==
    [op |-> op, job_id |-> j, code |-> 404,
     body |-> [error |-> "Job not found", job_id |-> j]]

\* routes.ts:396-418.  readJobStatus never throws, so the route's own catch
\* (500) is never taken.
StatusResponse(j, readOk) ==
    LET status == readJobStatus(j, readOk)
    IN  IF status = Null THEN NotFound("status", j)
        ELSE [op |-> "status", job_id |-> j, code |-> 200, body |-> status]

\* A status route that stamps the record it has read.
PollStatusTouch(j, readOk) ==
    /\ response = NoResponse
    /\ response' = StatusResponse(j, readOk)
    /\ store' = IF Exists(j, STATUS)
                THEN Put(store, Key(j, STATUS),
                         [store[Key(j, STATUS)] EXCEPT !.updated_at = 9])
                ELSE store
    /\ UNCHANGED <<pc, request, caught, faults, statusLog, failedWrites, runs>>

PollStatus(j, readOk) ==
    /\ response = NoResponse
    /\ response' = StatusResponse(j, readOk)
    /\ UNCHANGED <<pc, request, store, caught, faults, statusLog, failedWrites, runs>>

\* routes.ts:421-466.  The status read and the results read are two awaits;
\* the route goes on to the second only when the status is completed, after
\* which nothing of the job is written, so the two reads are taken together.
ResultsResponse(j, readOk, readResultsOk) ==
    LET status == readJobStatus(j, readOk)
        results == readResults(j, readResultsOk)
    IN  IF status = Null THEN NotFound("results", j)
        ELSE IF status.status # "completed"
        THEN [op |-> "results", job_id |-> j, code |-> 400,
              body |-> [error |-> "Job not completed yet",
                        current_status |-> status.status, job_id |-> j]]
        ELSE IF results = Null
        THEN [op |-> "results", job_id |-> j, code |-> 500,
              body |-> [error |-> "Failed to read results", job_id |-> j]]
        ELSE [op |-> "results", job_id |-> j, code |-> 200,
              body |-> [test_cases |-> results.TestCases,
                        statistical_summary |-> results.StatisticalSummary,
                        github_url |-> IF Truthy(results.github_url)
                                       THEN results.github_url ELSE JsonNull,
                        csv_download_url |-> <<"/api/download/", j>>,
                        generated_at |-> results.generated_at]]

FetchResults(j, readOk, readResultsOk) ==
    /\ response = NoResponse
    /\ response' = ResultsResponse(j, readOk, readResultsOk)
    /\ UNCHANGED <<pc, request, store, caught, faults, statusLog, failedWrites, runs>>

\* gcs-service.ts:339-365
readCSVOutput(j, readOk) ==
    IF readOk /\ Exists(j, OUTPUT)
    THEN [isNull |-> FALSE, text |-> store[Key(j, OUTPUT)]]
    ELSE Null

\* routes.ts:475: !csvContent, which null and '' satisfy.
NoCsv(csvContent) == csvContent.isNull \/ csvContent.text = EmptyText

\* A download route that sends an empty file when there is no output.
DownloadResponseEmptyFile(j, readOk) ==
    LET csvContent == readCSVOutput(j, readOk)
    IN  [op |-> "download", job_id |-> j, code |-> 200,
         body |-> [csv |-> IF NoCsv(csvContent) THEN EmptyText ELSE csvContent.text,
                   filename |-> <<"test-cases-", j, ".csv">>]]

\* routes.ts:469-493.  readCSVOutput never throws.
DownloadResponse(j, readOk) ==
    LET csvContent == readCSVOutput(j, readOk)
    IN  IF NoCsv(csvContent)
        THEN [op |-> "download", job_id |-> j, code |-> 404,
              body |-> [error |-> "CSV file not found", job_id |-> j]]
        ELSE [op |-> "download", job_id |-> j, code |-> 200,
              body |-> [csv |-> csvContent.text,
                        filename |-> <<"test-cases-", j, ".csv">>]]

Download(j, readOk) ==
    /\ response = NoResponse
    /\ response' = DownloadResponse(j, readOk)
    /\ UNCHANGED <<pc, request, store, caught, faults, statusLog, failedWrites, runs>>

\* gcs-service.ts:406-435: the ids under jobs/ (GCS: the ids that have an
\* object; local: the ids that have a directory); [] when the listing fails.
listJobs(readOk) ==
    IF readOk THEN {j \in JobIds : \E kind \in ArtifactKinds : Exists(j, kind)} ELSE {}

\* routes.ts:496-512
ListJobs(readOk) ==
    /\ response = NoResponse
    /\ response' = [op |-> "jobs", job_id |-> "", code |-> 200,
                    body |-> [jobs |-> listJobs(readOk),
                              count |-> Cardinality(listJobs(readOk))]]
    /\ UNCHANGED <<pc, request, store, caught, faults, statusLog, failedWrites, runs>>

\* routes.ts:515-529 with gcs-service.ts:389-404: checkConnection probes the
\* bucket (local: makes sure the base directory is there) and touches no job.
Health(gcsHealthy) ==
    /\ response = NoResponse
    /\ response' = [op |-> "health", job_id |-> "", code |-> 200,
                    body |-> [status |-> "healthy",
                              integrations |-> [vertexAI |-> TRUE, gcs |-> gcsHealthy]]]
    /\ UNCHANGED <<pc, request, store, caught, faults, statusLog, failedWrites, runs>>

\* The client has the response; the next request can be served.
Deliver ==
    /\ response # NoResponse
    /\ response' = NoResponse
    /\ UNCHANGED <<pc, request, store, caught, faults, statusLog, failedWrites, runs>>

\* ------------------------------------------------------------------- Next
\* The polling routes write nothing, so a behaviour in which a job steps
\* while a response is on its way has the same jobs and the same responses
\* as one in which the response is delivered first: only those are explored.
Quiet == response = NoResponse

\* One step of a submit or of a background run.
JobStep ==
    \/ \E j \in JobIds, body \in SubmitBodies, readOk, writeOk \in BOOLEAN :
          \E csvResult \in Fetches(body) :
              Quiet /\ SubmitWritePending(j, body, csvResult, readOk, writeOk)
                    /\ UNCHANGED <<diskVars, flow, client, asked>>
    \/ \E j \in JobIds, writeOk \in BOOLEAN : Quiet /\ SubmitWriteCSV(j, writeOk) /\ UNCHANGED <<diskVars, flow, client, asked>>
    \/ \E j \in JobIds, writeOk \in BOOLEAN : Quiet /\ SubmitWriteMetadata(j, writeOk) /\ UNCHANGED <<diskVars, flow, client, asked>>
    \/ \E j \in JobIds, readOk, writeOk \in BOOLEAN : Quiet /\ RunProcessing(j, readOk, writeOk) /\ UNCHANGED <<diskVars, flow, client, asked>>
    \/ \E j \in JobIds, outcome \in ThrownValues \cup {NoThrow}, writeOk \in BOOLEAN :
          Quiet /\ RunGenerate(j, outcome, writeOk) /\ UNCHANGED <<diskVars, flow, client, asked>>
    \/ \E j \in JobIds, outcome \in ThrownValues \cup {NoThrow}, writeOk \in BOOLEAN :
          Quiet /\ RunWriteOutput(j, outcome, writeOk) /\ UNCHANGED <<diskVars, flow, client, asked>>
    \/ \E j \in JobIds, readOk, writeOk \in BOOLEAN : Quiet /\ RunComplete(j, readOk, writeOk) /\ UNCHANGED <<diskVars, flow, client, asked>>
    \/ \E j \in JobIds, readOk, writeOk \in BOOLEAN : Quiet /\ RunCatch(j, readOk, writeOk) /\ UNCHANGED <<diskVars, flow, client, asked>>

\* One polling request.
Poll ==
    \/ \E j \in JobIds, readOk \in BOOLEAN : PollStatus(j, readOk) /\ UNCHANGED <<diskVars, flow, client, asked>>
    \/ \E j \in JobIds, readOk, readResultsOk \in BOOLEAN : FetchResults(j, readOk, readResultsOk) /\ UNCHANGED <<diskVars, flow, client, asked>>
    \/ \E j \in JobIds, readOk \in BOOLEAN : Download(j, readOk) /\ UNCHANGED <<diskVars, flow, client, asked>>
    \/ \E readOk \in BOOLEAN : ListJobs(readOk) /\ UNCHANGED <<diskVars, flow, client, asked>>
    \/ \E gcsHealthy \in BOOLEAN : Health(gcsHealthy) /\ UNCHANGED <<diskVars, flow, client, asked>>

\* One submit request that is refused.
Reject == \E body \in SubmitBodies : \E csvResult \in Fetches(body) : SubmitReject(body, csvResult) /\ UNCHANGED <<diskVars, flow, client, asked>>

Next == JobStep \/ Reject \/ Poll \/ (Deliver /\ UNCHANGED <<diskVars, flow, client, asked>>)

Spec == Init /\ [][Next]_vars

\* One job from submit to completed, every Store operation succeeding, for
\* each of the CSV texts of GenCsvs; its results are fetched and its output
\* downloaded.
GenNext ==
    \/ /\ pc[GenJob] = "none"
       /\ \E body \in GenBodies :
             SubmitWritePending(GenJob, body, NoFetch, TRUE, TRUE)
       /\ UNCHANGED <<diskVars, flow, client, asked>>
    \/ SubmitWriteCSV(GenJob, TRUE) /\ UNCHANGED <<diskVars, flow, client, asked>>
    \/ SubmitWriteMetadata(GenJob, TRUE) /\ UNCHANGED <<diskVars, flow, client, asked>>
    \/ RunProcessing(GenJob, TRUE, TRUE) /\ UNCHANGED <<diskVars, flow, client, asked>>
    \/ RunGenerate(GenJob, NoThrow, TRUE) /\ UNCHANGED <<diskVars, flow, client, asked>>
    \/ RunWriteOutput(GenJob, NoThrow, TRUE) /\ UNCHANGED <<diskVars, flow, client, asked>>
    \/ RunComplete(GenJob, TRUE, TRUE) /\ UNCHANGED <<diskVars, flow, client, asked>>
    \/ (pc[GenJob] = "done" /\ FetchResults(GenJob, TRUE, TRUE)) /\ UNCHANGED <<diskVars, flow, client, asked>>
    \/ (pc[GenJob] = "done" /\ Download(GenJob, TRUE)) /\ UNCHANGED <<diskVars, flow, client, asked>>
    \/ Deliver /\ UNCHANGED <<diskVars, flow, client, asked>>

GenSpec == Init /\ [][GenNext]_vars

\* Submits and runs in which no Store operation fails and the Generator does
\* not throw, with the status route polled meanwhile.  HappyRun(j) is what
\* the event loop does for job j once its submit has started: the awaited
\* promise settles and the code goes on, the setImmediate callback is run.
HappySubmit(j) ==
    \E body \in SubmitBodies : \E csvResult \in Fetches(body) :
        SubmitWritePending(j, body, csvResult, TRUE, TRUE)
HappyRun(j) ==
    \/ SubmitWriteCSV(j, TRUE) /\ UNCHANGED <<diskVars, flow, client, asked>>
    \/ SubmitWriteMetadata(j, TRUE) /\ UNCHANGED <<diskVars, flow, client, asked>>
    \/ RunProcessing(j, TRUE, TRUE) /\ UNCHANGED <<diskVars, flow, client, asked>>
    \/ RunGenerate(j, NoThrow, TRUE) /\ UNCHANGED <<diskVars, flow, client, asked>>
    \/ RunWriteOutput(j, NoThrow, TRUE) /\ UNCHANGED <<diskVars, flow, client, asked>>
    \/ RunComplete(j, TRUE, TRUE) /\ UNCHANGED <<diskVars, flow, client, asked>>
LiveNext ==
    \/ \E j \in JobIds : HappySubmit(j) /\ UNCHANGED <<diskVars, flow, client, asked>>
    \/ \E j \in JobIds : HappyRun(j)
    \/ \E j \in JobIds : PollStatus(j, TRUE) /\ UNCHANGED <<diskVars, flow, client, asked>>
    \/ Deliver /\ UNCHANGED <<diskVars, flow, client, asked>>

\* Job j is at an await of generateTestCases or in its setImmediate callback
\* (mock-testcase-generator.ts:180-235), and leaves that position.  Under
\* LiveNext the steps that do so are those of HappyRun(j), and one of them is
\* possible at each of these positions.
Pending == {"s_csv", "s_meta", "queued", "r_delay", "r_output", "r_complete"}
Continue(j) ==
    /\ pc[j] \in Pending
    /\ \E p \in Pending \cup {"done"} :
          p # pc[j] /\ pc' = [pc EXCEPT ![j] = p]

\* The event loop runs every continuation and callback that is due: a job
\* that stays at such a position eventually leaves it.
LiveSpec ==
    Init /\ [][LiveNext]_vars /\ \A j \in JobIds : WF_pc(Continue(j))

\* The local backend file by file: the writes of one job and the reads of
\* its artifacts.
DiskSpec == Init /\ [][DiskNext]_vars

\* The Store calls of the jobs call by call, the calls of different jobs in
\* any order.
FlowSpec == Init /\ [][FlowNext]_vars
ClientSpec == Init /\ [][ClientNext]_vars

\* The submit route alone: requests are taken one after the other, each with
\* what its fetch resolves to, and asked keeps the one handled last (with the
\* job id drawn for it, or none); the awaited writes of an accepted submit
\* follow, succeeding or failing.
SubmitNext ==
    \/ /\ Quiet
       /\ \E j \in JobIds : \E body \in SubmitBodies : \E csvResult \in Fetches(body) :
            /\ SubmitWritePending(j, body, csvResult, TRUE, TRUE)
            /\ asked' = Asked(body, csvResult, j)
       /\ UNCHANGED <<diskVars, flow, client>>
    \/ \E body \in SubmitBodies : \E csvResult \in Fetches(body) :
          /\ SubmitReject(body, csvResult)
          /\ asked' = Asked(body, csvResult, "")
          /\ UNCHANGED <<diskVars, flow, client>>
    \/ \E j \in JobIds : \E writeOk \in BOOLEAN :
          SubmitWriteCSV(j, writeOk) /\ UNCHANGED <<diskVars, flow, client, asked>>
    \/ \E j \in JobIds : \E writeOk \in BOOLEAN :
          SubmitWriteMetadata(j, writeOk) /\ UNCHANGED <<diskVars, flow, client, asked>>
    \/ Deliver /\ UNCHANGED <<diskVars, flow, client, asked>>
SubmitSpec == Init /\ [][SubmitNext]_vars

\* ========================================================== the claims
Range(seq) == {seq[i] : i \in 1..Len(seq)}
StatusRecord(j) == store[Key(j, STATUS)]
\* The persisted status of j; "none" while no status record is persisted.
StatusOf(j) == IF Exists(j, STATUS) THEN StatusRecord(j).status ELSE "none"
RunWrites == {"processing", RESULTS, OUTPUT}

LegalTransitions ==
    { <<"none", "pending">>, <<"pending", "processing">>,
      <<"processing", "completed">>, <<"processing", "failed">> }

\* C1: the statuses ever persisted for a job follow only none->pending,
\* pending->processing, processing->completed and processing->failed (stated
\* for the behaviours in which at most one Store operation fails).
C1_OnlyLegalTransitions ==
    \A j \in JobIds :
        LET log == <<"none">> \o statusLog[j]
        IN  faults <= 1 => \A i \in 1..(Len(log) - 1) : <<log[i], log[i + 1]>> \in LegalTransitions

\* C2: once the persisted status of a job is completed or failed, no step of
\* any job and no request changes it, and the job takes no further step (no
\* retry).
C2_TerminalAbsorbing ==
    [][\A j \in JobIds :
          StatusOf(j) \in Terminal =>
              /\ Exists(j, STATUS)'
              /\ StatusRecord(j)'.status = StatusRecord(j).status
              /\ pc'[j] = pc[j]]_vars

\* A terminal job is polled (its terminal record is in the response) while the
\* other job is between its submit and the end of its run.
C2_Witness ==
    \E j \in JobIds :
        /\ response.op = "status" /\ response.job_id = j /\ response.code = 200
        /\ response.body.status \in Terminal
        /\ \E k \in JobIds \ {j} : pc[k] \notin {"none", "done"}

\* C3: when submit has returned a job id and the run has not started, the
\* pending status record is persisted, so that a status poll finds it and
\* finds pending (stated for the behaviours in which at most one Store
\* operation fails).
C3_ReturnedJobIsPending ==
    \A j \in JobIds : (faults <= 1 /\ pc[j] = "queued") => StatusOf(j) = "pending"

\* C4: a job that reached pending and whose run has ended (the job takes no
\* further step) has a terminal status (stated for the behaviours in which
\* at most one Store operation fails, and it is not the write of the failed
\* status).
C4_EndedRunIsTerminal ==
    \A j \in JobIds :
        (/\ faults <= 1 /\ "failed" \notin failedWrites[j]
         /\ pc[j] = "done" /\ "pending" \in Range(statusLog[j]))
            => StatusOf(j) \in Terminal

\* C5: a job one of whose run writes (processing status, results, output CSV)
\* failed never has status completed, and has status failed when its run has
\* ended (stated for the behaviours in which one Store operation fails).
C5_FailedRunWriteNeverCompleted ==
    \A j \in JobIds :
        (faults <= 1 /\ failedWrites[j] \cap RunWrites # {})
            => /\ StatusOf(j) # "completed"
               /\ pc[j] = "done" => StatusOf(j) = "failed"

\* C6: a job whose persisted status is completed has its results and its
\* output CSV persisted, and a fetch-results request whose reads succeed is
\* answered 200 (stated for the behaviours in which at most one Store
\* operation fails).
C6_CompletedHasArtifacts ==
    \A j \in JobIds :
        (faults <= 1 /\ StatusOf(j) = "completed")
            => /\ Exists(j, RESULTS) /\ Exists(j, OUTPUT)
               /\ ResultsResponse(j, TRUE, TRUE).code = 200

\* C7: when the Generator step threw and the run has ended, the status is
\* failed and the record carries a non-empty error string (stated for the
\* behaviours in which no Store operation fails).
C7_ThrowEndsFailedWithError ==
    \A j \in JobIds :
        (faults = 0 /\ pc[j] = "done" /\ caught[j].thrown)
            => /\ StatusOf(j) = "failed"
               /\ "error" \in DOMAIN StatusRecord(j)
               /\ StatusRecord(j).error \notin {"", Undefined}

\* C8: a persisted status record carries an error field only when its status
\* is failed.
C8_ErrorOnlyWhenFailed ==
    \A j \in JobIds :
        (Exists(j, STATUS) /\ "error" \in DOMAIN StatusRecord(j))
            => StatusRecord(j).status = "failed"

\* One job's record is failed and carries an error, the other job's record
\* has another status.
C8_Witness ==
    \E j \in JobIds :
        /\ StatusOf(j) = "failed" /\ "error" \in DOMAIN StatusRecord(j)
        /\ \E k \in JobIds \ {j} : StatusOf(k) \in {"pending", "processing", "completed"}

\* C9: fetch-results answers 200 only for a job whose persisted status is
\* completed, and then with the whole stored result; for a job whose status
\* is pending, processing or failed it answers not-ready (400), never
\* not-found (404) (stated for the behaviours in which no Store operation of
\* a submit or run fails).
C9_ResultsOnlyWhenCompleted ==
    (faults = 0 /\ response.op = "results") =>
        LET j == response.job_id
        IN  /\ response.code = 200 =>
                /\ StatusOf(j) = "completed"
                /\ response.body.test_cases = store[Key(j, RESULTS)].TestCases
            /\ StatusOf(j) \in {"pending", "processing", "failed"} =>
                response.code = 400

\* C10: the fetch-results response for a failed job differs from the one for
\* a pending or processing job and carries the job's error message (stated
\* for the behaviours in which no Store operation of a submit or run fails).
C10_FailedResultsCarryReason ==
    (/\ faults = 0
     /\ response.op = "results"
     /\ StatusOf(response.job_id) = "failed"
     /\ "error" \in DOMAIN StatusRecord(response.job_id)
     /\ response.code = 400)
        => \E f \in DOMAIN response.body :
              response.body[f] = StatusRecord(response.job_id).error

\* C11: a step in which a submit request is answered with an error (400 or
\* 500) changes nothing of the Store and draws no job id.
C11_RejectedSubmitLeavesStore ==
    [][(response' # response /\ response'.op = "submit" /\ response'.code # 200)
          => (store' = store /\ pc' = pc)]_vars

\* A submit is refused (its error response is on its way) while a job that
\* was accepted earlier has artifacts in the Store and is in its run.
C11_Witness ==
    /\ response.op = "submit" /\ response.code \in {400, 500}
    /\ \E j \in JobIds : pc[j] = "r_delay" /\ Exists(j, STATUS) /\ Exists(j, INPUT)

ZodMessages == {ZodMessage(fields) : fields \in (SUBSET {"batch_number", "user_id"}) \ {{}}}

\* C12: a submit refused because batch_number or user_id is missing or empty
\* is answered with the client-error code 400, as a submit without a CSV
\* source is, and with details.
C12_InvalidFieldsAreClientError ==
    (/\ response.op = "submit" /\ response.code # 200
     /\ response.body.details \in ZodMessages)
        => response.code = 400

\* C13: the request with which a job was started carries a CSV text that is
\* not the empty string, whichever source it came from.
C13_JobHasCsvContent ==
    \A j \in JobIds : pc[j] # "none" => request[j].csv_mapping # EmptyText

\* One job was started from an inline csv_mapping and one from a fetched
\* github_url, while a submit without content is being refused.
C13_Witness ==
    /\ response.op = "submit" /\ response.code = 400
    /\ \E j, k \in JobIds :
          /\ Exists(j, STATUS) /\ request[j].github_url = GithubUrl
          /\ Exists(k, STATUS) /\ request[k].github_url = Undefined

\* C14: at the moment submit returns the job id (the 200 response is on its
\* way) the persisted status is pending and the run has not begun: its
\* callback has not started and no result or output is written (stated for
\* the behaviours in which at most one Store operation fails).
C14_ReturnsBeforeRun ==
    \A j \in JobIds :
        (faults <= 1 /\ response = SubmitAccepted(j))
            => /\ StatusOf(j) = "pending"
               /\ runs[j] = 0
               /\ ~Exists(j, RESULTS) /\ ~Exists(j, OUTPUT)

\* C15: a job's run callback begins at most once, and exactly once for a job
\* whose submit has returned and whose run is no longer queued; the status
\* processing is persisted at most once per job.
C15_OneRunPerJob ==
    \A j \in JobIds :
        /\ runs[j] <= 1
        /\ pc[j] \in {"none", "s_csv", "s_meta", "queued"} => runs[j] = 0
        /\ pc[j] \in {"r_delay", "r_output", "r_complete", "r_catch", "done"} => runs[j] = 1
        /\ Cardinality({i \in 1..Len(statusLog[j]) : statusLog[j][i] = "processing"}) <= 1

\* Both jobs have had their one run: one ended completed, one ended failed
\* after a throw.
C15_Witness ==
    \E j, k \in JobIds :
        /\ pc[j] = "done" /\ runs[j] = 1 /\ StatusOf(j) = "completed"
        /\ pc[k] = "done" /\ runs[k] = 1 /\ StatusOf(k) = "failed"
        /\ "processing" \in Range(statusLog[j]) /\ "processing" \in Range(statusLog[k])

\* C16: a status, results or download request for an id that no submit has
\* drawn is answered 404, whatever else the Store holds.
C16_UnknownIdNotFound ==
    (response.op \in {"status", "results", "download"} /\ pc[response.job_id] = "none")
        => response.code = 404

\* A download for an id no submit has drawn is answered while the other job
\* is completed and has its output.
C16_Witness ==
    /\ response.op = "download" /\ pc[response.job_id] = "none"
    /\ \E k \in JobIds : StatusOf(k) = "completed" /\ Exists(k, OUTPUT)

ReadOps == {"status", "results", "download", "jobs", "health"}

\* C17: a step in which a status poll, a results fetch, a download, a job
\* listing or a health probe is answered leaves the whole Store as it was.
C17_ReadOpsLeaveStore ==
    [][(response' # response /\ response'.op \in ReadOps) => store' = store]_vars

\* A status poll is answered with a job's processing record while that job is
\* in its run and the other job has all five artifacts.
C17_Witness ==
    /\ response.op = "status" /\ response.code = 200
    /\ response.body.status = "processing" /\ pc[response.job_id] = "r_output"
    /\ \E k \in JobIds : \A kind \in ArtifactKinds : Exists(k, kind)

\* C18: every status poll of a job whose status is terminal is answered with
\* the persisted record, and every results fetch of a completed job with the
\* persisted results; with C2 the answers of repeated requests are identical
\* (stated for the behaviours in which no Store operation of a submit or run
\* fails).
C18_TerminalPollsIdentical ==
    \A j \in JobIds :
        (faults = 0 /\ response.job_id = j /\ StatusOf(j) \in Terminal)
            => /\ response.op = "status" => response = StatusResponse(j, TRUE)
               /\ (response.op = "results" /\ StatusOf(j) = "completed")
                     => response = ResultsResponse(j, TRUE, TRUE)

\* C19: in the local backend an artifact file, whenever it exists, holds the
\* whole text of a value, and what a read of an artifact returns is absence
\* or the whole text of a value that a write of that artifact has renamed
\* into place: the old value or the new one, never a part of one.  This holds
\* while a write is in progress and after a write has failed at any point.
C19_ReadersSeeWholeValues ==
    /\ \A kind \in ArtifactKinds :
          Key(DiskJob, kind) \in DOMAIN files => Complete(files[Key(DiskJob, kind)])
    /\ seen.found =>
          \E w \in writer.renamed : w[1] = seen.kind /\ seen.content = Text(w[2])

\* The write of the processing status failed between the temp write and the
\* rename (its whole temp file is left behind), a read of status.json has
\* returned the old value pending, and the next write is filling its temp file.
C19_Witness ==
    /\ seen = [kind |-> STATUS, found |-> TRUE, content |-> Text("pending")]
    /\ \E hex \in HexNames :
          /\ tempPath(DiskJob, STATUS, hex) \in DOMAIN files
          /\ files[tempPath(DiskJob, STATUS, hex)] = Text("processing")
    /\ writer.call = 5 /\ writer.at = "file" /\ writer.written = 1

RECURSIVE SumOver(_, _)
SumOver(f, keys) ==
    IF keys = {} THEN 0
    ELSE LET k == CHOOSE x \in keys : TRUE
         IN  f[k] + SumOver(f, keys \ {k})
Total(breakdown) == SumOver(breakdown, DOMAIN breakdown)

\* C20: in every persisted result, TotalTestCases is the number of test
\* cases, and the values of TestCaseTypeBreakdown and those of
\* SubtypeBreakdown each add up to it; also for a CSV without data rows.
C20_StatisticsAddUp ==
    \A j \in JobIds :
        Exists(j, RESULTS) =>
            LET results == store[Key(j, RESULTS)]
                summary == results.StatisticalSummary
            IN  /\ summary.TotalTestCases = Len(results.TestCases)
                /\ Total(summary.TestCaseTypeBreakdown) = summary.TotalTestCases
                /\ Total(summary.SubtypeBreakdown) = summary.TotalTestCases

\* The results of a CSV of three rows (ten test cases, one of them the
\* regression case) are fetched.
C20_Witness ==
    /\ response.op = "results" /\ response.code = 200
    /\ response.body.statistical_summary.TotalTestCases = 10
    /\ response.body.statistical_summary.TestCaseTypeBreakdown =
          [t \in {"FUNCTIONAL", "EDGE", "REGRESSION"} |->
              CASE t = "FUNCTIONAL" -> 6 [] t = "EDGE" -> 3 [] OTHER -> 1]

\* ---------------------------------------------------------------- C21
\* The number written in a TestCaseID: the decimal digits that follow
\* "B_<batch number>_TC_".
DigitValue(c) == CHOOSE d \in 0..9 : DigitChars[d + 1] = c
RECURSIVE Number(_)
Number(digits) ==
    IF digits = << >> THEN 0
    ELSE 10 * Number(SubSeq(digits, 1, Len(digits) - 1))
            + DigitValue(digits[Len(digits)])
RECURSIVE DigitRun(_, _)
DigitRun(s, from) ==
    IF from > Len(s) \/ s[from] \notin Range(DigitChars) THEN << >>
    ELSE <<s[from]>> \o DigitRun(s, from + 1)
SequenceNumber(id, batchNumber) ==
    Number(DigitRun(id, Len(Pieces(batchNumber)) + 3))

\* C21: within the results of one job the TestCaseID values are pairwise
\* distinct, and the number written in the i-th test case's id is i: the
\* numbers start at 1 and go up by one, without gap or repeat.
C21_IdsDistinctAndNumbered ==
    \A j \in JobIds :
        Exists(j, RESULTS) =>
            LET testCases == store[Key(j, RESULTS)].TestCases
                batchNumber == request[j].batch_number
            IN  /\ \A a, b \in 1..Len(testCases) :
                       a # b => testCases[a].TestCaseID # testCases[b].TestCaseID
                /\ \A i \in 1..Len(testCases) :
                       SequenceNumber(testCases[i].TestCaseID, batchNumber) = i

\* The results of a CSV of four rows: thirteen test cases, the regression
\* case of the third row numbered 10 and the first case of the fourth 11.
C21_Witness ==
    /\ Exists(GenJob, RESULTS)
    /\ LET testCases == store[Key(GenJob, RESULTS)].TestCases
       IN  /\ Len(testCases) = 13
           /\ testCases[10].TestCaseType = "REGRESSION"
           /\ SequenceNumber(testCases[11].TestCaseID,
                             request[GenJob].batch_number) = 11

\* ---------------------------------------------------------------- C22
\* The lower-cased TestCaseType and Subtype values.
LowerCased(word) ==
    CASE word = "FUNCTIONAL" -> "functional"
      [] word = "REGRESSION" -> "regression"
      [] word = "EDGE" -> "edge"
      [] word = "POSITIVE" -> "positive"
      [] word = "NEGATIVE" -> "negative"
\* A number below 1000 written with three digits.
ThreeDigits(n) ==
    << DigitChars[(n \div 100) + 1], DigitChars[((n \div 10) % 10) + 1],
       DigitChars[(n % 10) + 1] >>
\* B_{batch_number}_TC_{sequence:03d}_{first}_{second}
IdForm(batchNumber, sequence, first, second) ==
    <<"B_">> \o Pieces(batchNumber) \o <<"_TC_">> \o ThreeDigits(sequence)
        \o <<"_", first, "_", second>>
\* The two words that end the id of a test case of a type and a subtype.
IdWords(type, subtype) ==
    IF type = "EDGE" THEN <<"edge", "case">>
    ELSE <<LowerCased(type), LowerCased(subtype)>>

\* C22 as stated: the id of the i-th test case of a job is
\* B_{batch_number}_TC_{i padded to three digits}_{type}_{subtype}, type and
\* subtype being the lower-cased TestCaseType and Subtype of that test case.
C22_IdNamesTypeAndSubtype ==
    \A j \in JobIds :
        Exists(j, RESULTS) =>
            LET testCases == store[Key(j, RESULTS)].TestCases
            IN  \A i \in 1..Len(testCases) :
                    testCases[i].TestCaseID =
                        IdForm(request[j].batch_number, i,
                               LowerCased(testCases[i].TestCaseType),
                               LowerCased(testCases[i].Subtype))

\* C22 amended: the id of the i-th test case of a job is
\* B_{batch_number}_TC_{i padded to three digits}_{words}, the words being
\* the lower-cased TestCaseType and Subtype for a FUNCTIONAL and a REGRESSION
\* test case, and edge_case for an EDGE test case of either Subtype.
C22_IdNamesKind ==
    \A j \in JobIds :
        Exists(j, RESULTS) =>
            LET testCases == store[Key(j, RESULTS)].TestCases
            IN  \A i \in 1..Len(testCases) :
                    LET words == IdWords(testCases[i].TestCaseType,
                                         testCases[i].Subtype)
                    IN  testCases[i].TestCaseID =
                            IdForm(request[j].batch_number, i, words[1], words[2])

\* Results that hold all four kinds of test case, the EDGE cases of both
\* subtypes, and an id with a two-digit number.
C22_Witness ==
    /\ Exists(GenJob, RESULTS)
    /\ LET testCases == store[Key(GenJob, RESULTS)].TestCases
           kinds == {<<testCases[i].TestCaseType, testCases[i].Subtype>> :
                        i \in 1..Len(testCases)}
       IN  /\ Len(testCases) >= 10
           /\ kinds = {<<"FUNCTIONAL", "POSITIVE">>, <<"FUNCTIONAL", "NEGATIVE">>,
                       <<"EDGE", "POSITIVE">>, <<"EDGE", "NEGATIVE">>,
                       <<"REGRESSION", "POSITIVE">>}

\* ---------------------------------------------------------------- C23
\* A CSV text read with the standard quoting rules: a double quote opens or
\* closes a quoted stretch, two double quotes inside one stand for one, and
\* outside a quoted stretch a comma ends the field and a line feed the record.
\* FieldEnd is the place of the comma or line feed that ends the field which
\* begins at piece i (one past the text when the text ends first).
RECURSIVE FieldEnd(_, _, _)
FieldEnd(text, i, inQuotes) ==
    IF i > Len(text) THEN i
    ELSE IF text[i] = DQuote THEN FieldEnd(text, i + 1, ~inQuotes)
    ELSE IF ~inQuotes /\ text[i] \in {Comma, LineFeed} THEN i
    ELSE FieldEnd(text, i + 1, inQuotes)
\* The value of the field written in pieces from..to: of its double quotes,
\* the first opens it, the last closes it, and each pair in between stands
\* for one, so the third, fifth, ... are kept.
FieldValue(text, from, to) ==
    LET Rank(p) == Cardinality({q \in from..p : text[q] = DQuote})
        Kept(p) == text[p] # DQuote \/ (Rank(p) > 1 /\ Rank(p) % 2 = 1)
        places == SelectSeq([k \in 1..(to - from + 1) |-> from + k - 1], Kept)
    IN  [k \in 1..Len(places) |-> text[places[k]]]
\* ReadFields reads the fields of one record from piece i on and tells where
\* the next record begins.
RECURSIVE ReadFields(_, _)
ReadFields(text, i) ==
    CHOOSE read \in UNION
        { IF end > Len(text) \/ text[end] = LineFeed
          THEN {[record |-> <<FieldValue(text, i, end - 1)>>, next |-> end + 1]}
          ELSE {[record |-> <<FieldValue(text, i, end - 1)>> \o rest.record,
                 next |-> rest.next] : rest \in {ReadFields(text, end + 1)}} :
              end \in {FieldEnd(text, i, FALSE)} } : TRUE
RECURSIVE ReadCsv(_, _)
ReadCsv(text, i) ==
    CHOOSE records \in
        { IF read.next > Len(text) THEN <<read.record>>
          ELSE <<read.record>> \o ReadCsv(text, read.next) :
              read \in {ReadFields(text, i)} } : TRUE
StandardCsv(text) == IF text = << >> THEN << >> ELSE ReadCsv(text, 1)

\* The records are the header and then one record per test case whose first
\* field is the test case's id.
ReadsBack(records, testCases) ==
    /\ records[1] = [i \in 1..Len(CsvHeader) |-> <<CsvHeader[i]>>]
    /\ {records[k][1] : k \in 2..Len(records)}
          = {testCases[i].TestCaseID : i \in 1..Len(testCases)}

\* C23: the output CSV a run persists, read with the standard quoting rules,
\* has the header as its first record, and the first fields of the records
\* after it are exactly the TestCaseID values of the job's results; also when
\* the batch number or another field holds a comma, a double quote or a line
\* feed.
C23_OutputReadsBack ==
    [][\A j \in JobIds :
          (/\ ~Exists(j, OUTPUT)
           /\ Key(j, OUTPUT) \in DOMAIN store'
           /\ Exists(j, RESULTS)) =>
              \A records \in {StandardCsv(store'[Key(j, OUTPUT)])} :
                  ReadsBack(records, store[Key(j, RESULTS)].TestCases)]_vars

\* The output of a job whose batch number holds a double quote and whose CSV
\* has the line with the quoted Source_Field is persisted: a record read back
\* from it has a double quote in its id and a comma in its description.
C23_Witness ==
    /\ Exists(GenJob, OUTPUT)
    /\ request[GenJob].batch_number = "7\"8"
    /\ \E records \in {StandardCsv(store[Key(GenJob, OUTPUT)])} :
          \E k \in 2..Len(records) :
              /\ DQuote \in Range(records[k][1])
              /\ Comma \in Range(records[k][2])
              /\ LineFeed \in Range(records[k][3])

\* ---------------------------------------------------------------- C24
\* C24: job ids are not reused.  The step with which a submit starts writing
\* under an id finds no job and no artifact under that id; an id that a job
\* has stays that job's; and the step that accepts a submit under an id is
\* the only one for that id (no run of it has started).
C24_JobIdsNotReused ==
    [][\A j \in JobIds :
          /\ (pc'[j] = "s_csv" /\ (pc[j] # "s_csv" \/ request'[j] # request[j])) =>
                 /\ pc[j] = "none"
                 /\ \A kind \in ArtifactKinds : ~Exists(j, kind)
                 /\ runs[j] = 0
          /\ pc[j] # "none" => pc'[j] # "none"
          /\ (pc[j] = "s_meta" /\ pc'[j] # "s_meta") => runs[j] = 0]_vars

\* The second submit is accepted under its own id while the first job has
\* its artifacts.
C24_Witness ==
    /\ response = SubmitAccepted(JobOrder[2])
    /\ Exists(JobOrder[1], STATUS) /\ Exists(JobOrder[1], INPUT)
    /\ Exists(JobOrder[2], STATUS) /\ Exists(JobOrder[2], INPUT)

\* ---------------------------------------------------------------- C25
\* C25: created_at is the same in every status record persisted for a job: a
\* step that replaces the status record of a job keeps its created_at, also
\* when the read of the existing record inside writeJobStatus fails.
C25_CreatedAtNeverChanges ==
    [][\A j \in JobIds :
          (Exists(j, STATUS) /\ Key(j, STATUS) \in DOMAIN store') =>
              store'[Key(j, STATUS)].created_at = StatusRecord(j).created_at]_vars

\* ---------------------------------------------------------------- C26
\* C26: no exception escapes the background run: the callback of no job ends
\* with an unhandled error, also when the write of the failed status itself
\* fails.
C26_NoErrorEscapesRun ==
    \A j \in JobIds : pc[j] # "unhandled"

\* A run entered its catch block, the write of the failed status failed, and
\* the run has ended.
C26_Witness ==
    \E j \in JobIds :
        /\ pc[j] = "done"
        /\ caught[j].thrown
        /\ "failed" \in failedWrites[j]

\* ---------------------------------------------------------------- C27
\* C27: a Store write reports its outcome.  In the local backend: a write
\* function never throws; when it returns true the artifact's file holds the
\* whole new text; and the artifact's file changes in no other step, so a
\* write that returns false, wherever it failed, leaves the artifact as it was
\* before the call.
C27_WritesReportOutcome ==
    [][/\ ~writer'.returned.threw
       /\ (writer'.call # writer.call /\ writer'.returned.ok) =>
              /\ Key(DiskJob, Call.kind) \in DOMAIN files'
              /\ files'[Key(DiskJob, Call.kind)] = Text(Call.value)
       /\ \A kind \in ArtifactKinds :
              LET file == Key(DiskJob, kind)
                  same == IF file \in DOMAIN files
                          THEN file \in DOMAIN files' /\ files'[file] = files[file]
                          ELSE file \notin DOMAIN files'
              IN  ~same => /\ writer'.call # writer.call
                           /\ writer'.returned = Returned(Call, TRUE, FALSE)
                           /\ Call.kind = kind]_vars

\* The write of the processing status has returned false after filling its
\* temp file, and status.json still holds the whole pending record.
C27_Witness ==
    /\ writer.returned = Returned([kind |-> STATUS, value |-> "processing"],
                                  FALSE, FALSE)
    /\ Key(DiskJob, STATUS) \in DOMAIN files
    /\ files[Key(DiskJob, STATUS)] = Text("pending")
    /\ \E hex \in HexNames :
          /\ tempPath(DiskJob, STATUS, hex) \in DOMAIN files
          /\ files[tempPath(DiskJob, STATUS, hex)] = Text("processing")

\* ---------------------------------------------------------------- C28
\* C28: whenever the status record of a job is in the Store (with any
\* status), the job's input CSV and its metadata are in the Store: the
\* pending status is not visible before the input and metadata writes are
\* done.
C28_StatusImpliesInputAndMetadata ==
    \A j \in JobIds :
        Exists(j, STATUS) => Exists(j, INPUT) /\ Exists(j, METADATA)

\* C28 amended: submit writes the pending status first, then the input CSV,
\* then the metadata, and answers with the job id after the three writes.  A
\* write counts as done when the artifact is in the Store or the write has
\* failed.  The input CSV is in the Store only after the pending write is
\* done, the metadata only after the input write is done, and a status other
\* than pending, or the answer with the job id, only after all three.
Done(j, kind, what) == Exists(j, kind) \/ what \in failedWrites[j]
C28_PendingThenInputThenMetadata ==
    \A j \in JobIds :
        /\ Exists(j, INPUT) => Done(j, STATUS, "pending")
        /\ Exists(j, METADATA) => Done(j, INPUT, INPUT)
        /\ (StatusOf(j) \in {"processing", "completed", "failed"}
               \/ response = SubmitAccepted(j)) =>
              /\ Done(j, STATUS, "pending")
              /\ Done(j, INPUT, INPUT)
              /\ Done(j, METADATA, METADATA)

\* The pending status of a job is in the Store and can be polled while its
\* input CSV and metadata have not been written yet.
C28_Witness ==
    \E j \in JobIds :
        /\ StatusOf(j) = "pending"
        /\ ~Exists(j, INPUT) /\ ~Exists(j, METADATA)
        /\ failedWrites[j] = {}
        /\ response = [op |-> "status", job_id |-> j, code |-> 200,
                       body |-> StatusRecord(j)]

\* ---------------------------------------------------------------- C29
\* A step of the run has been taken when what it writes is in the Store (for
\* a status: has been persisted) or its write has failed.
Taken(j, what) ==
    IF what \in ArtifactKinds THEN Exists(j, what) \/ what \in failedWrites[j]
    ELSE what \in Range(statusLog[j]) \/ what \in failedWrites[j]

\* C29: the steps of a run are taken in the order processing status write,
\* generation, statistics, results write, output write, completed status
\* write: a step is taken only after the one before it, and the results that
\* are written hold the generated test cases and the statistics computed from
\* them.
C29_RunStepsInOrder ==
    \A j \in JobIds :
        /\ Taken(j, RESULTS) => Taken(j, "processing")
        /\ Taken(j, OUTPUT) => Taken(j, RESULTS)
        /\ Taken(j, "completed") => Taken(j, OUTPUT)
        /\ Exists(j, RESULTS) =>
              LET results == store[Key(j, RESULTS)]
                  csvRows == parseCSV(request[j].csv_mapping)
              IN  /\ results.TestCases =
                        generateTestCasesFromCSV(csvRows, request[j].batch_number)
                  /\ results.StatisticalSummary =
                        calculateStatistics(results.TestCases, csvRows)

\* A job went pending, processing, completed with its results and its output
\* in the Store.
C29_Witness ==
    \E j \in JobIds :
        /\ statusLog[j] = <<"pending", "processing", "completed">>
        /\ Exists(j, RESULTS) /\ Exists(j, OUTPUT)
        /\ failedWrites[j] = {}

\* ---------------------------------------------------------------- C30
\* What the Store holds for a job under each kind (<< >>: nothing).
ArtifactsOf(s, j) ==
    [kind \in ArtifactKinds |->
        IF Key(j, kind) \in DOMAIN s THEN <<s[Key(j, kind)]>> ELSE << >>]
\* The statuses a job run alone persists, given what its own run threw and
\* which of its own writes failed.
OwnStatuses(j) ==
    SelectSeq(<<"pending", "processing",
                IF caught[j].thrown THEN "failed" ELSE "completed">>,
              LAMBDA status : status \notin failedWrites[j])

\* C30: jobs are independent.  A step of the submit or the run of a job A
\* leaves every artifact of another job B, and B's request, position, caught
\* error and history, as they are; and when A has ended, the statuses A has
\* persisted and A's results are those that A's own request, A's own thrown
\* error and A's own failed writes give, whatever B did.
C30_JobsIndependent ==
    [][\A a \in JobIds :
          /\ pc'[a] # pc[a] =>
                \A b \in JobIds \ {a} :
                    /\ ArtifactsOf(store', b) = ArtifactsOf(store, b)
                    /\ pc'[b] = pc[b] /\ request'[b] = request[b]
                    /\ caught'[b] = caught[b] /\ statusLog'[b] = statusLog[b]
                    /\ failedWrites'[b] = failedWrites[b] /\ runs'[b] = runs[b]
          /\ (pc'[a] = "done" /\ pc[a] # "done") =>
                /\ statusLog'[a] = OwnStatuses(a)'
                /\ Key(a, RESULTS) \in DOMAIN store' =>
                      LET results == store'[Key(a, RESULTS)]
                          alone == BuildResponse(request[a], results.generated_at)
                      IN  results = alone]_vars

\* The runs of two jobs are under way at once: one has thrown and is about to
\* write failed, the other has written its results and goes on.
C30_Witness ==
    \E a, b \in JobIds :
        /\ a # b
        /\ pc[b] = "r_catch" /\ caught[b].thrown
        /\ pc[a] = "r_output" /\ Exists(a, RESULTS)

\* ---------------------------------------------------------------- C31
\* C31: at no time are two Store writes of one job in progress; the read and
\* the save of a writeJobStatus are therefore not interleaved with another
\* status write of the job, and the status saves take effect in the order of
\* the calls, so that no status is overwritten by an earlier one.
C31_OneWriteAtATime ==
    \A j \in JobIds :
        /\ Cardinality(flow[j].inflight) <= 1
        /\ \A a, b \in 1..Len(flow[j].saved) :
              a < b => flow[j].saved[a] < flow[j].saved[b]

\* The completed status of one job is being written, between its read and its
\* save, while the other job is in a write of its own.
C31_Witness ==
    \E a, b \in JobIds :
        /\ a # b
        /\ flow[a].inflight = {7} /\ flow[a].readDone = {7}
        /\ flow[a].saved = <<1, 4>>
        /\ flow[b].inflight # {}

\* ---------------------------------------------------------------- C32
\* C32: when no Store operation fails and the Generator does not throw, a
\* submit that has been accepted leads to a job whose persisted statuses are
\* pending, then processing, then completed, and whose status is completed;
\* the status of no job is ever failed.
C32_AcceptedSubmitCompletes ==
    /\ \A j \in JobIds :
          (response = SubmitAccepted(j)) ~>
              (/\ statusLog[j] = <<"pending", "processing", "completed">>
               /\ StatusOf(j) = "completed")
    /\ [](\A j \in JobIds : StatusOf(j) # "failed")

\* Both jobs have been accepted and have gone pending, processing, completed;
\* the status route answers completed for the second.
C32_Witness ==
    /\ \A j \in JobIds : statusLog[j] = <<"pending", "processing", "completed">>
    /\ response.op = "status" /\ response.job_id = JobOrder[2]
    /\ response.code = 200 /\ response.body.status = "completed"

\* ---------------------------------------------------------------- C33
\* The data lines of a CSV text that have a non-empty field, in order: the
\* parsed mapping rows.
MappingRows(csv) ==
    LET at == {i \in 2..Len(csv) : csv[i] # EmptyLine}
        RECURSIVE Ordered(_)
        Ordered(left) ==
            IF left = {} THEN << >>
            ELSE LET i == CHOOSE a \in left : \A b \in left : a <= b
                 IN  <<csv[i]>> \o Ordered(left \ {i})
    IN  Ordered(at)
\* A text holds the pieces of a part somewhere.
Mentions(text, part) ==
    \E a \in 1..(Len(text) - Len(part) + 1) :
        SubSeq(text, a, a + Len(part) - 1) = part
Is(testCase, type, subtype) ==
    testCase.TestCaseType = type /\ testCase.Subtype = subtype
\* The row a test case belongs to: the number of functional positive cases
\* up to it.
RowOf(testCases, i) ==
    Cardinality({a \in 1..i : Is(testCases[a], "FUNCTIONAL", "POSITIVE")})

\* C33: the results hold one FUNCTIONAL/POSITIVE and one FUNCTIONAL/NEGATIVE
\* case per parsed mapping row; the k-th FUNCTIONAL/POSITIVE case is followed
\* at once by the k-th FUNCTIONAL/NEGATIVE case, and every case from it up to
\* the next FUNCTIONAL/POSITIVE case is about row k, so that all cases of a
\* row come before those of the next.
C33_FunctionalPairPerRow ==
    \A j \in JobIds :
        Exists(j, RESULTS) =>
            \A testCases \in {store[Key(j, RESULTS)].TestCases} :
            \A rows \in {MappingRows(request[j].csv_mapping)} :
                LET all == 1..Len(testCases)
                    positive == {i \in all : Is(testCases[i], "FUNCTIONAL", "POSITIVE")}
                    negative == {i \in all : Is(testCases[i], "FUNCTIONAL", "NEGATIVE")}
                IN  /\ Cardinality(positive) = Len(rows)
                    /\ Cardinality(negative) = Len(rows)
                    /\ \A i \in positive : i + 1 \in negative
                    /\ \A i \in all :
                          /\ RowOf(testCases, i) \in 1..Len(rows)
                          /\ Mentions(testCases[i].TestDescription,
                                      sourceField(rows[RowOf(testCases, i)],
                                                  RowOf(testCases, i)))

\* The results of a CSV of four rows, the third of them followed by its
\* regression case: the cases of the fourth row are the eleventh to the
\* thirteenth, functional positive first and functional negative next.
C33_Witness ==
    /\ Exists(GenJob, RESULTS)
    /\ Len(MappingRows(request[GenJob].csv_mapping)) = 4
    /\ LET testCases == store[Key(GenJob, RESULTS)].TestCases
       IN  /\ Is(testCases[10], "REGRESSION", "POSITIVE")
           /\ Is(testCases[11], "FUNCTIONAL", "POSITIVE")
           /\ Is(testCases[12], "FUNCTIONAL", "NEGATIVE")
           /\ Mentions(testCases[12].TestDescription, <<"Field_", "4">>)

\* ---------------------------------------------------------------- C34
\* The Required values that read yes or true when case is ignored.
YesOrTrue == {"yes", "Yes", "YES", "yEs", "true", "True", "TRUE", "tRue"}

\* C34: among the cases of each parsed mapping row exactly one is of type
\* EDGE, and no EDGE case belongs to no row; its subtype is NEGATIVE when the
\* row's Required value reads yes or true whatever its case, and POSITIVE
\* otherwise, also for a row without a Required value.
C34_OneEdgeCasePerRow ==
    \A j \in JobIds :
        Exists(j, RESULTS) =>
            \A testCases \in {store[Key(j, RESULTS)].TestCases} :
            \A rows \in {MappingRows(request[j].csv_mapping)} :
                LET edge == {i \in 1..Len(testCases) : testCases[i].TestCaseType = "EDGE"}
                IN  /\ \A i \in edge : RowOf(testCases, i) \in 1..Len(rows)
                    /\ \A k \in 1..Len(rows) :
                          \E i \in edge :
                              /\ \A a \in edge : RowOf(testCases, a) = k <=> a = i
                              /\ testCases[i].Subtype =
                                    IF Required(rows[k]) \in YesOrTrue
                                    THEN "NEGATIVE" ELSE "POSITIVE"

\* The results of the CSV whose rows hold Yes, TRUE, No and no Required value:
\* the edge cases are the third, sixth, ninth and thirteenth case.
C34_Witness ==
    /\ Exists(GenJob, RESULTS)
    /\ Tail(request[GenJob].csv_mapping) = <<"Yes", "TRUE", "No", QuotedLine>>
    /\ LET testCases == store[Key(GenJob, RESULTS)].TestCases
       IN  /\ Is(testCases[3], "EDGE", "NEGATIVE")
           /\ Is(testCases[6], "EDGE", "NEGATIVE")
           /\ Is(testCases[9], "EDGE", "POSITIVE")
           /\ Is(testCases[13], "EDGE", "POSITIVE")

\* ---------------------------------------------------------------- C35
\* A field as the claim has it written: between double quotes, each of its
\* own double quotes twice, when it holds a comma, a double quote or a line
\* feed, and as it is otherwise.
Special(field) == \E i \in 1..Len(field) : field[i] \in {Comma, DQuote, LineFeed}
RECURSIVE Flat(_)
Flat(parts) == IF parts = << >> THEN << >> ELSE Head(parts) \o Flat(Tail(parts))
Written(field) ==
    IF Special(field)
    THEN <<DQuote>>
            \o Flat([i \in 1..Len(field) |->
                        IF field[i] = DQuote THEN <<DQuote, DQuote>> ELSE <<field[i]>>])
            \o <<DQuote>>
    ELSE field
\* The six fields of a test case, in the order of the header.
Fields(testCase) ==
    << testCase.TestCaseID, testCase.TestDescription, testCase.TestSteps,
       testCase.ExpectedResults, <<testCase.TestCaseType>>, <<testCase.Subtype>> >>
\* The record of a test case, after the line feed that ends the line before.
Record(testCase) ==
    <<LineFeed>>
        \o Flat([i \in 1..11 |->
                    IF i % 2 = 1 THEN Written(Fields(testCase)[(i + 1) \div 2])
                    ELSE <<Comma>>])
HeaderRow ==
    <<"TestCaseID", Comma, "TestDescription", Comma, "TestSteps", Comma,
      "ExpectedResults", Comma, "TestCaseType", Comma, "Subtype">>

\* C35: the derived CSV of a job is the header row
\* TestCaseID,TestDescription,TestSteps,ExpectedResults,TestCaseType,Subtype
\* followed by one record of six fields for each test case of the results,
\* in the order of generation; a field is between double quotes with its own
\* double quotes doubled exactly when it holds a comma, a double quote or a
\* line feed, and is written unchanged otherwise.
C35_OutputIsHeaderAndRecords ==
    \A j \in JobIds :
        Exists(j, OUTPUT) /\ Exists(j, RESULTS) =>
            \A testCases \in {store[Key(j, RESULTS)].TestCases} :
                store[Key(j, OUTPUT)] =
                    HeaderRow \o Flat([i \in 1..Len(testCases) |-> Record(testCases[i])])

\* The derived CSV of a job whose batch number holds a double quote: the id
\* of its first case is written between double quotes with that double quote
\* twice, its steps (which hold line feeds) begin with a double quote, and
\* its type and subtype are written as they are.
C35_Witness ==
    /\ Exists(GenJob, OUTPUT) /\ Exists(GenJob, RESULTS)
    /\ request[GenJob].batch_number = "7\"8"
    /\ Mentions(store[Key(GenJob, OUTPUT)],
                <<"Subtype", LineFeed, DQuote, "B_", "7", DQuote, DQuote, "8", "_TC_">>)
    /\ Mentions(store[Key(GenJob, OUTPUT)],
                <<Comma, DQuote, "1. Parse input data containing ">>)
    /\ Mentions(store[Key(GenJob, OUTPUT)],
                <<Comma, "FUNCTIONAL", Comma, "POSITIVE", LineFeed>>)

\* ---------------------------------------------------------------- C39
\* C39: the results of a CSV with n parsed (non-empty) data rows hold
\* 3n + floor(n/3) test cases; the REGRESSION cases are floor(n/3) in number,
\* each of subtype POSITIVE and the last case of a row whose number is a
\* multiple of three, every other row having three cases; a job whose CSV is
\* the header alone, once its run is over, is completed with no test case.
C39_ThreePerRowAndRegressions ==
    \A j \in JobIds :
        /\ Exists(j, RESULTS) =>
              \A testCases \in {store[Key(j, RESULTS)].TestCases} :
              \A n \in {Len(MappingRows(request[j].csv_mapping))} :
                  /\ Len(testCases) = 3 * n + (n \div 3)
                  /\ \A k \in 1..n :
                        LET cases == {i \in 1..Len(testCases) : RowOf(testCases, i) = k}
                            last == CHOOSE i \in cases : \A a \in cases : a <= i
                        IN  /\ Cardinality(cases) = IF k % 3 = 0 THEN 4 ELSE 3
                            /\ \A i \in cases :
                                  testCases[i].TestCaseType = "REGRESSION" <=>
                                      (k % 3 = 0 /\ i = last)
                            /\ k % 3 = 0 => Is(testCases[last], "REGRESSION", "POSITIVE")
        /\ pc[j] = "done" /\ request[j].csv_mapping = <<HeaderLine>> =>
              /\ StatusOf(j) = "completed"
              /\ store[Key(j, RESULTS)].TestCases = << >>
              /\ store[Key(j, RESULTS)].StatisticalSummary.TotalTestCases = 0

\* The results of the CSV of seven parsed rows: twenty-three test cases, the
\* tenth and the twentieth of them the regression cases of rows three and
\* six, and the job is completed.
C39_Witness ==
    /\ pc[GenJob] = "done" /\ StatusOf(GenJob) = "completed"
    /\ request[GenJob].csv_mapping = LongCsv
    /\ LET testCases == store[Key(GenJob, RESULTS)].TestCases
       IN  /\ Len(testCases) = 23
           /\ {i \in 1..23 : testCases[i].TestCaseType = "REGRESSION"} = {10, 20}

\* The job of a CSV that is the header alone is completed without test case.
C39_HeaderOnlyWitness ==
    /\ pc[GenJob] = "done" /\ StatusOf(GenJob) = "completed"
    /\ request[GenJob].csv_mapping = <<HeaderLine>>
    /\ store[Key(GenJob, RESULTS)].TestCases = << >>

\* ---------------------------------------------------------------- C36
\* The ways in which the external service is unavailable: the connection
\* fails, the response is not OK, or the body of an OK response is malformed
\* (not JSON, or JSON without test cases).
Unavailable(answer) ==
    \/ answer.kind = "rejects"
    \/ answer.kind = "response" /\ ~answer.ok
    \/ answer.kind = "response" /\ answer.ok
          /\ (~answer.body.json \/ "TestCases" \notin DOMAIN answer.body.value)

\* C36: the calls of the external Generator client that met an unavailable
\* service have all ended the same way: all with the fallback result, or all
\* with an error.
C36_OnePolicyWhenUnavailable ==
    \A a, b \in client.ended :
        Unavailable(a.answer) /\ Unavailable(b.answer) => a.how = b.how

\* ---------------------------------------------------------------- C38
\* C38: when the submit route has handled a request with a github_url (and
\* valid batch_number and user_id), then, if the fetch succeeded with
\* non-empty content, the job started has that content as its CSV, whatever
\* the inline csv_mapping was; if the fetch failed or returned empty content,
\* the answer is a client error (4xx) and no job id was drawn and nothing
\* written, also when the request had a non-empty csv_mapping.
C38_GithubUrlOverridesInline ==
    [][\A body \in {asked'.body} : \A csvResult \in {asked'.csvResult} :
          (asked' # asked /\ asked' # NoAsk
              /\ HasGithubUrl(body) /\ InvalidFields(body) = {}) =>
            IF csvResult.success /\ csvResult.content # EmptyText
            THEN /\ asked'.job \in JobIds
                 /\ pc[asked'.job] = "none" /\ pc'[asked'.job] # "none"
                 /\ request'[asked'.job].csv_mapping = csvResult.content
            ELSE /\ asked'.job = ""
                 /\ response'.op = "submit" /\ response'.code \in 400..499
                 /\ pc' = pc /\ store' = store /\ request' = request]_vars

\* A request with a github_url and the inline CSV Csv2 has started the first
\* job with the fetched Csv1; a second such request, whose fetch failed, has
\* been answered 400, and there is no second job.
C38_Witness ==
    /\ pc[JobOrder[1]] = "queued"
    /\ request[JobOrder[1]].github_url = GithubUrl
    /\ request[JobOrder[1]].csv_mapping = Csv1
    /\ asked.job = "" /\ ~asked.csvResult.success
    /\ "csv_mapping" \in DOMAIN asked.body /\ asked.body.csv_mapping = Csv2
    /\ HasGithubUrl(asked.body)
    /\ response.code = 400
    /\ pc[JobOrder[2]] = "none"

\* ---------------------------------------------------------------- C37
\* C37: whenever the output CSV of a job is in the Store, the job's status
\* is processing or completed; so a download that returns the artifact does
\* so for a job in one of these two states.
C37_OutputOnlyWhenProcessingOrCompleted ==
    \A j \in JobIds :
        Exists(j, OUTPUT) =>
            Exists(j, STATUS) /\ StatusOf(j) \in {"processing", "completed"}

====
